---- MODULE Spec2Model ----
(***************************************************************************)
(* Verification model of the manga-reader REST backend.                    *)
(*                                                                         *)
(* The parts of the backend that are modelled, each as a specification:    *)
(*   SpecRatings  the rating handlers of src/src/routes/ratings.js and the *)
(*                incrementally maintained rating aggregate of a title;    *)
(*   SpecScore    the relevance scorer of src/src/routes/manga.js;         *)
(*   SpecSearch   the search handlers of src/src/routes/manga.js           *)
(*                (GET /manga/search and GET /manga?search=) with the      *)
(*                candidate filter, over a document store that may fail;   *)
(*   SpecPaging   a client reading GET /manga/search page by page while    *)
(*                the clock advances;                                      *)
(*   SpecBookmarks    concurrent POST /bookmarks and DELETE /bookmarks/:id *)
(*                    of src/src/routes/bookmarks.js;                      *)
(*   SpecViews        concurrent detail views (GET /manga/:id, /slug/:slug)*)
(*   SpecChapters     chapter creation and deletion of                     *)
(*                    src/src/routes/chapters.js with DELETE /manga/:id;   *)
(*   SpecRatingFaults the rating handlers when the update of the title's   *)
(*                    stats may throw;                                     *)
(*   SpecFilter       buildSearchOrConditions and GET /manga/search-test;  *)
(*   SpecLimits       GET /manga/search over the values of limit;          *)
(*   SpecRepeat       one GET /manga/search request sent twice;            *)
(*   SpecLogger       the rate limiter of the logger                       *)
(*                    (src/src/models/Chapter.js);                         *)
(*   SpecRatingRace   concurrent POST /ratings of src/src/routes/ratings.js*)
(*   SpecOtp          concurrent verifications of one OTP;                 *)
(*   SpecReactions    the reactions to one comment;                        *)
(*   SpecAccount      POST /auth/upload-avatar and                         *)
(*                    DELETE /auth/delete-account of src/src/routes/auth.js*)
(* Numbers with one decimal (averageRating) are kept in tenths.            *)
(***************************************************************************)
EXTENDS Integers, Sequences, FiniteSets, TLC

VARIABLES
  ratingOf,        \* Rating collection of the title: user -> stored value, 0 = no record
  totalRatings,    \* manga.stats.totalRatings
  averageRating,   \* manga.stats.averageRating, in tenths
  ratingRequests,  \* number of rating requests served so far
  scored,          \* the last call of calculateRelevanceScore: arguments and result
  corpus,          \* the Manga collection, in store order; a record's _id is its index
  now,             \* the clock (Date.now()), in days
  resp,            \* the response of the search request last served, until the client takes it
  session,         \* the pages a client has been served for one query and limit
  bookmarks,       \* Bookmark collection: <<userId, mangaId>> -> number of records
  bookmarkCount,   \* manga.stats.bookmarkCount of each title
  bookmarkReqs,    \* the bookmark requests in flight: slot -> request and its position
  bookmarkRequests,\* number of bookmark requests received so far
  views,           \* manga.stats.views of the title
  viewReqs,        \* the detail-view requests in flight: slot -> request, loaded document, position
  viewRequests,    \* number of detail-view requests received so far
  mangaStored,     \* whether the title's record is in the Manga collection
  chapters,        \* Chapter collection of the title: the chapterNumbers that have a record
  totalChapters,   \* manga.stats.totalChapters
  titleLastUpdated,\* manga.lastUpdated of the title, in days
  chapterReqs,     \* the chapter and title-deletion requests in flight: slot -> request
  chapterRequests, \* number of such requests received so far
  ratingFaults,    \* the rating requests (by ordinal) whose update of the title's stats threw
  built,           \* the candidate filter last built, and the records each of its clauses selects
  testResp,        \* the response of the GET /manga/search-test request last served
  repeat,          \* a search request sent twice: both responses and the days they were served
  logClock,        \* Date.now() of the logger's process, in seconds
  logCounts,       \* RateLimitedLogger.logCounts: key -> counter
  letThrough,      \* the calls canLog has let through, per clock second
  lastLog,         \* the last call of the logger: its level and whether it was let through
  logSteps,        \* number of logger steps taken so far
  ratingReqs,      \* the POST /ratings requests in flight: slot -> request and its position
  otpRecord,       \* the OTP record of one (email, otp, purpose): isUsed, and whether it has expired
  otpReqs,         \* the requests in flight that verify the OTP: slot -> request
  otpRequests,     \* number of such requests received so far
  otpAccepted,     \* number of verifyOTP calls that have returned true
  reactionPaths,   \* whether the Comment schema declares reactionCounts and userReactions
  comment,         \* the stored comment: its reactionCounts and userReactions
  lastReaction,    \* the last POST /comments/:id/reactions request and what it did
  reactionRequests,\* number of such requests served so far
  account,         \* the User document: avatarPublicId, avatarUpdatedAt, isActive
  objects,         \* the keys of the avatar objects in object storage
  deleteCalls,     \* the keys deleteUserAvatar has been invoked with
  avatarUpdates,   \* the days of the successful avatar updates, in their order
  avatarReqs,      \* the account requests in flight: slot -> request and its position
  avatarRequests,  \* number of account requests received so far
  avatarDay        \* the clock of the account requests, in days

ratingVars == <<ratingOf, totalRatings, averageRating, ratingRequests>>
scoreVars == <<scored>>
searchVars == <<corpus, now, resp, session>>
bookmarkVars == <<bookmarks, bookmarkCount, bookmarkReqs, bookmarkRequests>>
viewVars == <<views, viewReqs, viewRequests>>
chapterVars == <<mangaStored, chapters, totalChapters, titleLastUpdated, chapterReqs, chapterRequests>>
faultVars == <<ratingFaults>>
filterVars == <<built, testResp>>
repeatVars == <<repeat>>
loggerVars == <<logClock, logCounts, letThrough, lastLog, logSteps>>
raceVars == <<ratingReqs>>
otpVars == <<otpRecord, otpReqs, otpRequests, otpAccepted>>
reactionVars == <<reactionPaths, comment, lastReaction, reactionRequests>>
accountVars ==
  <<account, objects, deleteCalls, avatarUpdates, avatarReqs, avatarRequests, avatarDay>>
serviceVars == <<repeatVars, loggerVars, raceVars, otpVars, reactionVars, accountVars>>
catalogVars == <<bookmarkVars, viewVars, chapterVars, faultVars, filterVars>>
libraryVars == <<catalogVars, serviceVars>>
exceptBookmarkVars ==
  <<ratingVars, scoreVars, searchVars, viewVars, chapterVars, faultVars, filterVars,
    serviceVars>>
exceptViewVars ==
  <<ratingVars, scoreVars, searchVars, bookmarkVars, chapterVars, faultVars, filterVars,
    serviceVars>>
exceptChapterVars ==
  <<ratingVars, scoreVars, searchVars, bookmarkVars, viewVars, faultVars, filterVars,
    serviceVars>>
exceptFilterVars ==
  <<ratingVars, scoreVars, searchVars, bookmarkVars, viewVars, chapterVars, faultVars,
    serviceVars>>
exceptRepeatVars ==
  <<ratingVars, scoreVars, searchVars, catalogVars, loggerVars, raceVars, otpVars,
    reactionVars, accountVars>>
exceptLoggerVars ==
  <<ratingVars, scoreVars, searchVars, catalogVars, repeatVars, raceVars, otpVars,
    reactionVars, accountVars>>
exceptRatingRaceVars ==
  <<scoreVars, searchVars, catalogVars, repeatVars, loggerVars, otpVars, reactionVars,
    accountVars>>
exceptOtpVars ==
  <<ratingVars, scoreVars, searchVars, catalogVars, repeatVars, loggerVars, raceVars,
    reactionVars, accountVars>>
exceptReactionVars ==
  <<ratingVars, scoreVars, searchVars, catalogVars, repeatVars, loggerVars, raceVars,
    otpVars, accountVars>>
exceptAccountVars ==
  <<ratingVars, scoreVars, searchVars, catalogVars, repeatVars, loggerVars, raceVars,
    otpVars, reactionVars>>
vars == <<ratingVars, scoreVars, searchVars, libraryVars>>

(***************************************************************************)
(* Bounds of the model.                                                    *)
(***************************************************************************)
MaxUsers == 3
MaxRatingRequests == 6

Users == 1..MaxUsers

\* Values a client may send as "rating": 0 stands for a missing value, 6 for one above the range.
RatingInputs == 0..6

(***************************************************************************)
(* Rating aggregate arithmetic.                                            *)
(* The handlers compute in IEEE-754 doubles and store                      *)
(* Math.round(x * 10) / 10.  In exact arithmetic that is the quotient      *)
(* rounded half up to a tenth.  The double evaluation differs from the     *)
(* exact one only when the exact quotient lies on a half and the double    *)
(* product currentAvg * currentTotal falls just below it; the three sets   *)
(* below list those argument tuples (averageRating in tenths 0..60,        *)
(* totalRatings 1..4, ratings 1..5), for which the stored value is one     *)
(* tenth lower than the exact rounding.                                    *)
(***************************************************************************)
\* Math.round(num / den) for den > 0: the nearest integer, halves rounded up.
RoundHalfUp(num, den) == (2 * num + den) \div (2 * den)

\* <<averageRating, totalRatings, rating>> of a new rating
NewRatingRoundsDown ==
  { <<14, 3, 2>>, <<28, 3, 1>>, <<28, 3, 3>>, <<46, 3, 4>>, <<56, 3, 1>>, <<56, 3, 3>>, <<56, 3, 5>> }

\* <<averageRating, totalRatings, oldRating, rating>> of an updated rating
UpdatedRatingRoundsDown ==
  { <<1, 4, 2, 1>>, <<1, 4, 3, 2>>, <<1, 4, 4, 3>>, <<2, 4, 3, 2>>, <<2, 4, 4, 3>>, <<2, 4, 5, 4>>, <<3, 4, 2, 1>>, <<3, 4, 3, 2>>,
    <<6, 4, 4, 1>>, <<6, 4, 5, 2>>, <<7, 4, 4, 1>>, <<7, 4, 5, 2>>, <<14, 4, 4, 1>>, <<14, 4, 5, 2>>, <<23, 4, 4, 1>>, <<23, 4, 5, 2>> }

\* <<averageRating, totalRatings, deletedRating>> of a deleted rating
DeletedRatingRoundsDown ==
  { <<3, 3, 1>>, <<7, 3, 1>>, <<7, 3, 2>>, <<7, 3, 3>>, <<7, 3, 4>>, <<7, 3, 5>>, <<17, 3, 2>>, <<17, 3, 3>>,
    <<17, 3, 4>>, <<17, 3, 5>>, <<19, 3, 1>>, <<19, 3, 2>>, <<19, 3, 3>>, <<19, 3, 4>>, <<19, 3, 5>>, <<23, 3, 1>>,
    <<23, 3, 2>>, <<23, 3, 3>>, <<23, 3, 4>>, <<23, 3, 5>>, <<29, 3, 3>>, <<29, 3, 4>>, <<29, 3, 5>>, <<33, 3, 1>>,
    <<33, 3, 2>>, <<33, 3, 3>>, <<33, 3, 4>>, <<33, 3, 5>>, <<41, 3, 1>>, <<41, 3, 2>>, <<41, 3, 3>>, <<41, 3, 4>>,
    <<41, 3, 5>>, <<43, 3, 1>>, <<43, 3, 2>>, <<43, 3, 3>>, <<43, 3, 4>>, <<43, 3, 5>>, <<51, 3, 3>>, <<51, 3, 4>>,
    <<51, 3, 5>>, <<53, 3, 4>>, <<53, 3, 5>> }

\* ratings.js 97-116: aggregate after a NEW rating; result <<totalRatings, averageRating>>.
NewRatingStats(currentTotal, currentAvg, rating) ==
  LET newTotal == currentTotal + 1
      exact    == RoundHalfUp(currentAvg * currentTotal + 10 * rating, newTotal)
      newAvg   == IF currentTotal = 0
                    THEN 10 * rating
                    ELSE IF <<currentAvg, currentTotal, rating>> \in NewRatingRoundsDown
                           THEN exact - 1
                           ELSE exact
  IN  <<newTotal, newAvg>>

\* An update that counts the rating once more, as a new rating is counted.
UpdatedRatingStatsCounted(currentTotal, currentAvg, oldRating, rating) ==
  <<currentTotal + 1,
    IF currentTotal > 0
      THEN RoundHalfUp(currentAvg * currentTotal - 10 * oldRating + 10 * rating, currentTotal)
      ELSE 10 * rating>>

\* ratings.js 123-150: aggregate after an UPDATED rating (total stays the same).
UpdatedRatingStats(currentTotal, currentAvg, oldRating, rating) ==
  LET exact == RoundHalfUp(currentAvg * currentTotal - 10 * oldRating + 10 * rating,
                           currentTotal)
  IN  IF currentTotal > 0
        THEN <<currentTotal,
               IF <<currentAvg, currentTotal, oldRating, rating>> \in UpdatedRatingRoundsDown
                 THEN exact - 1
                 ELSE exact>>
        ELSE <<1, 10 * rating>>

\* ratings.js 185-209: aggregate after a DELETED rating.
DeletedRatingStats(currentTotal, currentAvg, deletedRating) ==
  IF currentTotal <= 0
    THEN <<currentTotal, currentAvg>>
    ELSE IF currentTotal = 1
      THEN <<0, 0>>
      ELSE LET newTotal == currentTotal - 1
               exact    == RoundHalfUp(currentAvg * currentTotal - 10 * deletedRating,
                                       newTotal)
           IN  <<newTotal,
                 IF <<currentAvg, currentTotal, deletedRating>> \in DeletedRatingRoundsDown
                   THEN exact - 1
                   ELSE exact>>

(***************************************************************************)
(* Rating handlers, one request at a time.                                 *)
(***************************************************************************)
\* POST /ratings (ratings.js 53-169) by user u with body value rating.
PostRating(u, rating) ==
  /\ ratingRequests < MaxRatingRequests
  /\ ratingRequests' = ratingRequests + 1
  /\ IF rating < 1 \/ rating > 5
       THEN \* 400 Invalid rating data
            UNCHANGED <<ratingOf, totalRatings, averageRating>>
       ELSE LET isNewRating == ratingOf[u] = 0
                oldRating   == ratingOf[u]
                stats == IF isNewRating
                           THEN NewRatingStats(totalRatings, averageRating, rating)
                           ELSE UpdatedRatingStats(totalRatings, averageRating,
                                                   oldRating, rating)
            IN  /\ ratingOf' = [ratingOf EXCEPT ![u] = rating]
                /\ totalRatings' = stats[1]
                /\ averageRating' = stats[2]
  /\ UNCHANGED <<scoreVars, searchVars, libraryVars>>

\* DELETE /ratings/:mangaId (ratings.js 171-226) by user u.
DeleteRating(u) ==
  /\ ratingRequests < MaxRatingRequests
  /\ ratingRequests' = ratingRequests + 1
  /\ IF ratingOf[u] = 0
       THEN \* 404 Rating not found
            UNCHANGED <<ratingOf, totalRatings, averageRating>>
       ELSE LET stats == DeletedRatingStats(totalRatings, averageRating, ratingOf[u])
            IN  /\ ratingOf' = [ratingOf EXCEPT ![u] = 0]
                /\ totalRatings' = stats[1]
                /\ averageRating' = stats[2]
  /\ UNCHANGED <<scoreVars, searchVars, libraryVars>>

(***************************************************************************)
(* Rating requests whose update of the title's stats throws.  The handlers *)
(* write the Rating record first and update manga.stats inside an inner    *)
(* try block; when Manga.findById or manga.save() rejects, the catch logs  *)
(* the error and the request is answered as a success, the record written  *)
(* and the stats as they were.                                             *)
(***************************************************************************)
MaxFaultyRatingRequests == 3

\* POST /ratings (ratings.js 53-169) with the inner catch of ratings.js 154-157 taken.
PostRatingStatsFail(u, rating) ==
  /\ ratingRequests < MaxFaultyRatingRequests
  /\ rating \in 1..5
  /\ ratingRequests' = ratingRequests + 1
  /\ ratingOf' = [ratingOf EXCEPT ![u] = rating]
  /\ ratingFaults' = ratingFaults \cup {ratingRequests + 1}
  /\ UNCHANGED <<totalRatings, averageRating>>
  /\ UNCHANGED <<scoreVars, searchVars, bookmarkVars, viewVars, chapterVars, filterVars,
                 serviceVars>>

\* DELETE /ratings/:mangaId (ratings.js 171-226) with the inner catch of ratings.js 212-215 taken.
DeleteRatingStatsFail(u) ==
  /\ ratingRequests < MaxFaultyRatingRequests
  /\ ratingOf[u] # 0
  /\ ratingRequests' = ratingRequests + 1
  /\ ratingOf' = [ratingOf EXCEPT ![u] = 0]
  /\ ratingFaults' = ratingFaults \cup {ratingRequests + 1}
  /\ UNCHANGED <<totalRatings, averageRating>>
  /\ UNCHANGED <<scoreVars, searchVars, bookmarkVars, viewVars, chapterVars, filterVars,
                 serviceVars>>

(***************************************************************************)
(* Strings.  A string is a sequence of one-character strings.              *)
(***************************************************************************)
UpperCase == <<"A","B","C","D","E","F","G","H","I","J","K","L","M",
               "N","O","P","Q","R","S","T","U","V","W","X","Y","Z">>
LowerCase == <<"a","b","c","d","e","f","g","h","i","j","k","l","m",
               "n","o","p","q","r","s","t","u","v","w","x","y","z">>
Digits == {"0","1","2","3","4","5","6","7","8","9"}

\* The characters \w of a regular expression; \b lies between a \w and a non-\w.
IsWordChar(c) ==
  \/ \E i \in 1..26 : c = UpperCase[i] \/ c = LowerCase[i]
  \/ c \in Digits
  \/ c = "_"

\* The characters \s.
IsSpace(c) == c \in {" ", "\t", "\n"}

LowerChar(c) ==
  IF \E i \in 1..26 : c = UpperCase[i]
    THEN LowerCase[CHOOSE i \in 1..26 : c = UpperCase[i]]
    ELSE c

\* String.prototype.toLowerCase
toLowerCase(s) == [i \in 1..Len(s) |-> LowerChar(s[i])]

\* String.prototype.startsWith
startsWith(s, p) == Len(p) <= Len(s) /\ SubSeq(s, 1, Len(p)) = p

\* String.prototype.includes
includes(s, p) ==
  \E i \in 1..(Len(s) - Len(p) + 1) : SubSeq(s, i, i + Len(p) - 1) = p

\* String.prototype.trim
trim(s) ==
  IF \A i \in 1..Len(s) : IsSpace(s[i])
    THEN <<>>
    ELSE LET first == CHOOSE i \in 1..Len(s) :
                        ~IsSpace(s[i]) /\ \A j \in 1..(i - 1) : IsSpace(s[j])
             last  == CHOOSE i \in 1..Len(s) :
                        ~IsSpace(s[i]) /\ \A j \in (i + 1)..Len(s) : IsSpace(s[j])
         IN  SubSeq(s, first, last)

\* s.split(/\s+/) without the empty strings, which every caller filters out
\* (word.length >= 1, word.length >= 3): the maximal runs of non-space characters.
RECURSIVE SplitFrom(_, _, _)
SplitFrom(s, i, word) ==
  IF i > Len(s)
    THEN IF word = <<>> THEN <<>> ELSE <<word>>
    ELSE IF IsSpace(s[i])
      THEN (IF word = <<>> THEN <<>> ELSE <<word>>) \o SplitFrom(s, i + 1, <<>>)
      ELSE SplitFrom(s, i + 1, Append(word, s[i]))

splitWords(s) == SplitFrom(s, 1, <<>>)

(***************************************************************************)
(* Regular expressions, as far as the routes use them: literal characters, *)
(* \-escaped characters, the assertion \b, the anchors ^ and $, and "."    *)
(* for any character; always with the option i.                            *)
(***************************************************************************)
\* The characters of the class [.*+?^${}()|[\]\\] of the escaping replace().
RegexMetaChars == {".", "*", "+", "?", "^", "$", "{", "}", "(", ")", "|", "[", "]", "\\"}

\* s.replace(/[.*+?^${}()|[\]\\]/g, '\\$&')
RECURSIVE escapeRegex(_)
escapeRegex(s) ==
  IF s = <<>> THEN <<>>
  ELSE (IF Head(s) \in RegexMetaChars THEN <<"\\", Head(s)>> ELSE <<Head(s)>>)
         \o escapeRegex(Tail(s))

\* The pattern parsed into atoms.
RECURSIVE RegexAtoms(_)
RegexAtoms(pat) ==
  IF pat = <<>> THEN <<>>
  ELSE IF Head(pat) = "\\" /\ Len(pat) >= 2
    THEN <<IF pat[2] = "b" THEN [t |-> "wb", c |-> ""] ELSE [t |-> "lit", c |-> pat[2]]>>
           \o RegexAtoms(SubSeq(pat, 3, Len(pat)))
    ELSE <<CASE Head(pat) = "." -> [t |-> "any", c |-> ""]
             [] Head(pat) = "^" -> [t |-> "bol", c |-> ""]
             [] Head(pat) = "$" -> [t |-> "eol", c |-> ""]
             [] OTHER -> [t |-> "lit", c |-> Head(pat)]>>
           \o RegexAtoms(Tail(pat))

\* Position i of s (before s[i]) is a word boundary.
IsWordBoundary(s, i) ==
  LET before == i > 1 /\ IsWordChar(s[i - 1])
      after  == i <= Len(s) /\ IsWordChar(s[i])
  IN  before # after

\* The atoms from the k-th on match s at position i.
RECURSIVE MatchHere(_, _, _, _)
MatchHere(atoms, k, s, i) ==
  IF k > Len(atoms) THEN TRUE
  ELSE CASE atoms[k].t = "lit" ->
              /\ i <= Len(s)
              /\ LowerChar(s[i]) = LowerChar(atoms[k].c)
              /\ MatchHere(atoms, k + 1, s, i + 1)
         [] atoms[k].t = "any" -> i <= Len(s) /\ MatchHere(atoms, k + 1, s, i + 1)
         [] atoms[k].t = "wb"  -> IsWordBoundary(s, i) /\ MatchHere(atoms, k + 1, s, i)
         [] atoms[k].t = "bol" -> i = 1 /\ MatchHere(atoms, k + 1, s, i)
         [] atoms[k].t = "eol" -> i = Len(s) + 1 /\ MatchHere(atoms, k + 1, s, i)

\* new RegExp(pat, 'i').test(s), and the store's { $regex: pat, $options: 'i' } on a string.
regexTest(pat, s) ==
  LET atoms == RegexAtoms(pat)
  IN  \E i \in 1..(Len(s) + 1) : MatchHere(atoms, 1, s, i)

(***************************************************************************)
(* Relevance scorer (manga.js 6-70).                                       *)
(***************************************************************************)
\* The stop words of the filters of lines 40, 89 and 294.
StopWords ==
  { <<"t","h","e">>, <<"a","n","d">>, <<"o","r">>, <<"i","n">>, <<"o","n">>,
    <<"a","t">>, <<"t","o">>, <<"f","o","r">>, <<"o","f">>, <<"w","i","t","h">>,
    <<"b","y">>, <<"a","n">>, <<"a">> }

\* word.length >= 3 && ![...].includes(word.toLowerCase())
IsSignificantWord(word) == Len(word) >= 3 /\ toLowerCase(word) \notin StopWords

\* The length of a title that still earns the specificity bonus, beyond the query's.
ShortTitleSlack == 10

\* The age in days up to which an update counts as recent.
RecentDays == 7

\* new RegExp(`\\b${escaped word}\\b`, 'i')
wordBoundaryRegex(word) == <<"\\", "b">> \o escapeRegex(word) \o <<"\\", "b">>

\* The body of queryWords.forEach (lines 43-57): what one query word adds to the score.
wordPoints(title, altTitles, word) ==
  LET re == wordBoundaryRegex(word)
  IN  (IF startsWith(title, word) THEN 150 ELSE 0)
      + (IF regexTest(re, title) THEN 75 ELSE 0)
      + (IF \E i \in 1..Len(altTitles) : regexTest(re, altTitles[i]) THEN 40 ELSE 0)

\* queryWords.forEach(...): the score after the words from the k-th on.
RECURSIVE forEachWord(_, _, _, _, _)
forEachWord(score, title, altTitles, queryWords, k) ==
  IF k > Len(queryWords) THEN score
  ELSE forEachWord(score + wordPoints(title, altTitles, queryWords[k]),
                   title, altTitles, queryWords, k + 1)

\* A mutant of calculateRelevanceScore: the best phrase row instead of their sum.
calculateRelevanceScoreMax(manga, searchQuery, clock) ==
  LET query     == toLowerCase(searchQuery)
      title     == toLowerCase(manga.title)
      altTitles == [i \in 1..Len(manga.alternativeTitles) |->
                      toLowerCase(manga.alternativeTitles[i])]
      someAlt(P(_)) == \E i \in 1..Len(altTitles) : P(altTitles[i])
      altIs(a)       == a = query
      altStarts(a)   == startsWith(a, query)
      altIncludes(a) == includes(a, query)
      best == IF title = query THEN 1000
              ELSE IF someAlt(altIs) THEN 800
              ELSE IF startsWith(title, query) THEN 500
              ELSE IF someAlt(altStarts) THEN 400
              ELSE IF includes(title, query) THEN 300
              ELSE IF someAlt(altIncludes) THEN 200 ELSE 0
      queryWords == SelectSeq(splitWords(query), IsSignificantWord)
      s7 == forEachWord(best, title, altTitles, queryWords, 1)
      s8 == s7 + (IF Len(title) <= Len(query) + ShortTitleSlack THEN 20 ELSE 0)
  IN  IF manga.lastUpdated # <<>> /\ clock - manga.lastUpdated[1] <= RecentDays
        THEN s8 + 10
        ELSE s8

\* calculateRelevanceScore(manga, searchQuery), with Date.now() = clock.
calculateRelevanceScore(manga, searchQuery, clock) ==
  LET query     == toLowerCase(searchQuery)
      title     == toLowerCase(manga.title)
      altTitles == [i \in 1..Len(manga.alternativeTitles) |->
                      toLowerCase(manga.alternativeTitles[i])]
      someAlt(P(_)) == \E i \in 1..Len(altTitles) : P(altTitles[i])
      altIs(a)       == a = query
      altStarts(a)   == startsWith(a, query)
      altIncludes(a) == includes(a, query)
      s0 == 0
      s1 == IF title = query THEN s0 + 1000 ELSE s0
      s2 == IF startsWith(title, query) THEN s1 + 500 ELSE s1
      s3 == IF includes(title, query) THEN s2 + 300 ELSE s2
      s4 == IF someAlt(altIs) THEN s3 + 800 ELSE s3
      s5 == IF someAlt(altStarts) THEN s4 + 400 ELSE s4
      s6 == IF someAlt(altIncludes) THEN s5 + 200 ELSE s5
      queryWords == SelectSeq(splitWords(query), IsSignificantWord)
      s7 == forEachWord(s6, title, altTitles, queryWords, 1)
      s8 == IF Len(title) <= Len(query) + ShortTitleSlack THEN s7 + 20 ELSE s7
  IN  IF manga.lastUpdated # <<>> /\ clock - manga.lastUpdated[1] <= RecentDays
        THEN s8 + 10
        ELSE s8

(***************************************************************************)
(* The titles and queries the model draws from.                            *)
(***************************************************************************)
MaxClock == 1
Clock == 0..MaxClock

TitleOne      == <<"O","n","e">>
TitleOnessa   == <<"O","n","e","s","s","a">>
TitleOneShot  == <<"O","n","e"," ","S","h","o","t">>
TitleShots    == <<"S","h","o","t"," ","S","h","o","t"," ","S","h","o","t">>
TitleZone     == <<"Z","o","n","e">>
TitleOn       == <<"O","n">>

\* title, alternativeTitles, genres and status of the catalogue's titles
CatalogTexts ==
  { [title |-> TitleOne,     alternativeTitles |-> <<>>,
     genres |-> {"Action"},  status |-> "Ongoing"],
    [title |-> TitleOnessa,  alternativeTitles |-> <<>>,
     genres |-> {},          status |-> "Completed"],
    [title |-> TitleOneShot, alternativeTitles |-> <<TitleOnessa>>,
     genres |-> {"Action"},  status |-> "Completed"],
    [title |-> TitleShots,   alternativeTitles |-> <<TitleOne>>,
     genres |-> {},          status |-> "Ongoing"] }

OtherTexts ==
  { [title |-> TitleZone,    alternativeTitles |-> <<TitleOnessa, TitleZone>>,
     genres |-> {},          status |-> "Hiatus"],
    [title |-> TitleOnessa,  alternativeTitles |-> <<TitleOneShot>>,
     genres |-> {},          status |-> "Ongoing"],
    [title |-> TitleShots,   alternativeTitles |-> <<TitleOn>>,
     genres |-> {},          status |-> "Ongoing"] }

\* lastUpdated: <<>> when the document has none, else <<day>>
WithLastUpdated(text, lastUpdated) ==
  [title |-> text.title, alternativeTitles |-> text.alternativeTitles,
   genres |-> text.genres, status |-> text.status, lastUpdated |-> lastUpdated]

\* the documents a catalogue is made of: updated RecentDays before day 0, or on day 0
CatalogDocs ==
  {WithLastUpdated(x, <<d>>) : x \in CatalogTexts, d \in {0 - RecentDays, 0}}

\* the documents the scorer is applied to
ScoredDocs ==
  CatalogDocs \cup {WithLastUpdated(x, <<0 - RecentDays>>) : x \in OtherTexts}
              \cup {WithLastUpdated(x, <<>>) : x \in CatalogTexts \cup OtherTexts}

NoParam == <<"undefined">>

QueryOne      == <<"o","n","e">>
QueryOnePad   == <<" ","O","n","e">>
QueryOneShot  == <<"o","n","e"," ","s","h","o","t">>
QueryOn       == <<"o","n">>
QueryBlank    == <<" ">>

\* the values of the query-string parameters q and search
QueryInputs == {NoParam, QueryBlank, QueryOne, QueryOnePad, QueryOneShot, QueryOn}

\* the strings the routes search for: a parameter as given, and trimmed
SearchStrings ==
  ((QueryInputs \ {NoParam}) \cup {trim(q) : q \in QueryInputs \ {NoParam}}) \ {<<>>}

(***************************************************************************)
(* Scoring one document.                                                   *)
(***************************************************************************)
NoScore == [called |-> FALSE]

\* calculateRelevanceScore(manga, searchQuery) called at time clock
Score(manga, searchQuery, clock) ==
  /\ scored = NoScore
  /\ scored' = [called |-> TRUE, manga |-> manga, searchQuery |-> searchQuery,
                clock |-> clock,
                score |-> calculateRelevanceScore(manga, searchQuery, clock)]
  /\ UNCHANGED <<ratingVars, searchVars, libraryVars>>

(***************************************************************************)
(* Candidate filter (manga.js 73-102, and its inline copy 278-313).        *)
(***************************************************************************)
\* A filter of the six phrase clauses alone.
buildSearchOrConditionsPhrasesOnly(search) ==
  LET escaped == escapeRegex(search)
  IN  << [field |-> "title",             regex |-> <<"^">> \o escaped \o <<"$">>],
         [field |-> "alternativeTitles", regex |-> <<"^">> \o escaped \o <<"$">>],
         [field |-> "title",             regex |-> <<"^">> \o escaped],
         [field |-> "alternativeTitles", regex |-> <<"^">> \o escaped],
         [field |-> "title",             regex |-> escaped],
         [field |-> "alternativeTitles", regex |-> escaped] >>

\* buildSearchOrConditions(search): the clauses of the $or, in order.
buildSearchOrConditions(search) ==
  LET searchWords == splitWords(trim(search))
      escaped == escapeRegex(search)
      or == << [field |-> "title",             regex |-> <<"^">> \o escaped \o <<"$">>],
               [field |-> "alternativeTitles", regex |-> <<"^">> \o escaped \o <<"$">>],
               [field |-> "title",             regex |-> <<"^">> \o escaped],
               [field |-> "alternativeTitles", regex |-> <<"^">> \o escaped],
               [field |-> "title",             regex |-> escaped],
               [field |-> "alternativeTitles", regex |-> escaped] >>
      significantWords == SelectSeq(searchWords, IsSignificantWord)
      wordClauses[k \in 0..Len(significantWords)] ==
        IF k = 0 THEN <<>>
        ELSE wordClauses[k - 1] \o
               << [field |-> "title",
                   regex |-> wordBoundaryRegex(significantWords[k])],
                  [field |-> "alternativeTitles",
                   regex |-> wordBoundaryRegex(significantWords[k])] >>
  IN  IF /\ Len(searchWords) > 1
         /\ Len(significantWords) >= 2
         /\ 10 * Len(significantWords) >= 6 * Len(searchWords)
        THEN or \o wordClauses[Len(significantWords)]
        ELSE or

\* simpleQuery.$or of the fallback (lines 376-381)
simpleOrConditions(search) ==
  << [field |-> "title",             regex |-> escapeRegex(search)],
     [field |-> "alternativeTitles", regex |-> escapeRegex(search)] >>

(***************************************************************************)
(* The document store: Manga.find(query).limit(n) and countDocuments.      *)
(***************************************************************************)
\* { field: { $regex, $options: 'i' } } on a document; an array field matches
\* when one of its elements does.
clauseMatches(doc, clause) ==
  IF clause.field = "title"
    THEN regexTest(clause.regex, doc.title)
    ELSE \E i \in 1..Len(doc.alternativeTitles) :
           regexTest(clause.regex, doc.alternativeTitles[i])

orMatches(doc, or) == \E k \in 1..Len(or) : clauseMatches(doc, or[k])

\* The $or of a query is decided by the texts of the document and of the query
\* alone, so it is evaluated once per document text and search string.
prioritizedOrTable ==
  [x \in CatalogTexts |->
     [search \in SearchStrings |->
        orMatches(WithLastUpdated(x, <<>>), buildSearchOrConditions(search))]]

simpleOrTable ==
  [x \in CatalogTexts |->
     [search \in SearchStrings |->
        orMatches(WithLastUpdated(x, <<>>), simpleOrConditions(search))]]

TextOf(doc) ==
  [title |-> doc.title, alternativeTitles |-> doc.alternativeTitles,
   genres |-> doc.genres, status |-> doc.status]

\* A query: the $or built from search (filter "prioritized" or "simple"), and the
\* genre and status conditions ("" when the request has none).
matchesQuery(doc, query) ==
  /\ IF query.filter = "prioritized"
       THEN prioritizedOrTable[TextOf(doc)][query.search]
       ELSE simpleOrTable[TextOf(doc)][query.search]
  /\ query.genre = "" \/ query.genre \in doc.genres
  /\ query.status = "" \/ query.status = doc.status

\* The _ids of the documents of docs that match, in store order.
matching(docs, query) ==
  SelectSeq([i \in 1..Len(docs) |-> i], LAMBDA i : matchesQuery(docs[i], query))

\* Manga.find(query).limit(n).lean()
find(docs, query, n) ==
  LET all == matching(docs, query)
  IN  IF Len(all) <= n THEN all ELSE SubSeq(all, 1, n)

\* Manga.countDocuments(query)
countDocuments(docs, query) == Len(matching(docs, query))

(***************************************************************************)
(* Sorting by relevance and the two search handlers of manga.js.           *)
(***************************************************************************)
\* calculateRelevanceScore of every catalogue document, search string and time
scoreTable ==
  [doc \in CatalogDocs |->
     [search \in SearchStrings |->
        [clock \in Clock |-> calculateRelevanceScore(doc, search, clock)]]]

\* The scores that occur, highest first.
ScoreValues ==
  {scoreTable[doc][search][clock] : doc \in CatalogDocs, search \in SearchStrings,
                                    clock \in Clock}

RECURSIVE Descending(_)
Descending(S) ==
  IF S = {} THEN <<>>
  ELSE LET top == CHOOSE x \in S : \A y \in S : y <= x
       IN  <<top>> \o Descending(S \ {top})

ScoreLevels == Descending(ScoreValues)

\* A mutant of sortByRelevance: the results stay in store order.
sortByRelevanceUnsorted(docs, ids, search, clock) == ids

\* A mutant of sortByRelevance: an unstable sort, which leaves documents of equal
\* score in an order that differs from call to call (here: reversed on odd days).
sortByRelevanceUnstable(docs, ids, search, clock) ==
  LET level(k) == SelectSeq(ids, LAMBDA i : scoreTable[docs[i]][search][clock]
                                              = ScoreLevels[k])
      reversed(seq) == [j \in 1..Len(seq) |-> seq[Len(seq) + 1 - j]]
      sortedUpTo[k \in 0..Len(ScoreLevels)] ==
        IF k = 0 THEN <<>>
        ELSE sortedUpTo[k - 1]
               \o (IF clock % 2 = 1 THEN reversed(level(k)) ELSE level(k))
  IN  sortedUpTo[Len(ScoreLevels)]

\* results.sort((a, b) => score(b) - score(a)): Array.prototype.sort is stable, so
\* the result lists the documents by descending score, equal scores in their
\* order in results: the documents of the highest score first, then the next.
sortByRelevance(docs, ids, search, clock) ==
  LET sortedUpTo[k \in 0..Len(ScoreLevels)] ==
        IF k = 0 THEN <<>>
        ELSE sortedUpTo[k - 1]
               \o SelectSeq(ids, LAMBDA i : scoreTable[docs[i]][search][clock]
                                              = ScoreLevels[k])
  IN  sortedUpTo[Len(ScoreLevels)]

\* array.slice(start, end) with 0 <= start <= end
slice(seq, start, end) ==
  IF start >= Len(seq) THEN <<>>
  ELSE SubSeq(seq, start + 1, IF end <= Len(seq) THEN end ELSE Len(seq))

\* Math.ceil(a / b) for a >= 0, b > 0
ceilDiv(a, b) == (a + b - 1) \div b

Max(a, b) == IF a >= b THEN a ELSE b
Min(a, b) == IF a <= b THEN a ELSE b

NoResponse ==
  [endpoint |-> "none", status |-> 0, data |-> <<>>, page |-> 0, itemsPerPage |-> 0,
   totalPages |-> 0, totalItems |-> 0, totalItemsScored |-> 0, note |-> FALSE,
   calls |-> <<>>, term |-> <<>>, request |-> <<>>]

\* one store call of a request: what was asked, whether it failed, how many it returned
StoreCall(op, filter, ok, returned) ==
  [op |-> op, filter |-> filter, ok |-> ok, returned |-> returned]

\* note: totalMatches > totalScored ? 'Pagination limited to top-scored pool' : undefined
\* A mutant: the note is set only from the second record beyond the pool on.
poolNoteLate(totalMatches, totalScored) == totalMatches > totalScored + 1

poolNote(totalMatches, totalScored) == totalMatches > totalScored

\* A mutant of pageCount: the pages of the true number of matches.
pageCountOfMatches(totalMatches, totalScored, pageLimit) == ceilDiv(totalMatches, pageLimit)

\* const totalPages = Math.ceil(totalScored / pageLimit)
pageCount(totalMatches, totalScored, pageLimit) == ceilDiv(totalScored, pageLimit)

\* A mutant of pageOf: the slice starts one page late.
pageOfLate(sorted, pageNum, pageLimit) ==
  slice(sorted, pageNum * pageLimit, pageNum * pageLimit + pageLimit)

\* start = (pageNum - 1) * pageLimit; end = start + pageLimit; sorted.slice(start, end)
pageOf(sorted, pageNum, pageLimit) ==
  LET start == (pageNum - 1) * pageLimit
      end   == start + pageLimit
  IN  slice(sorted, start, end)

\* A mutant of searchTerm: the term is not trimmed.
searchTermRaw(q, search) ==
  IF q # NoParam /\ q # <<>> THEN q
  ELSE IF search # NoParam /\ search # <<>> THEN search
  ELSE <<>>

\* const term = (q || search || '').trim()
searchTerm(q, search) ==
  trim(IF q # NoParam /\ q # <<>> THEN q
       ELSE IF search # NoParam /\ search # <<>> THEN search
       ELSE <<>>)

\* const MAX_POOL = Math.max(100, Math.min(pageLimit * 5, 300))
MAX_POOL(pageLimit) == Max(100, Min(pageLimit * 5, 300))

\* GET /manga/search (lines 431-477).  page and limit are <<>> when the parameter
\* is absent, else <<n>>; failing is the set of the request's store calls, by
\* their order, that fail.
searchHandler(q, search, page, limit, failing, docs, clock) ==
  LET \* const x = value; Body(x)
      With(value, Body(_)) == CHOOSE r \in {Body(x) : x \in {value}} : TRUE
  IN
  With(searchTerm(q, search), LAMBDA term :
    LET pageNum   == Max(1, IF page = <<>> THEN 1 ELSE page[1])
        parsed    == IF limit = <<>> THEN 20 ELSE limit[1]
        pageLimit == Max(1, Min(IF parsed = 0 THEN 20 ELSE parsed, 50))
        request   == <<q, search, page, limit, failing>>
        query     == [search |-> term, filter |-> "prioritized", genre |-> "", status |-> ""]
        findCall(ok, n)  == StoreCall("find", "prioritized", ok, n)
        countCall(ok, n) == StoreCall("count", "prioritized", ok, n)
    IN  IF term = <<>>
          THEN [NoResponse EXCEPT !.endpoint = "search", !.status = 400,
                                  !.request = request]
        ELSE IF 1 \in failing
          THEN [NoResponse EXCEPT !.endpoint = "search", !.status = 500, !.term = term,
                                  !.request = request, !.calls = <<findCall(FALSE, 0)>>]
        ELSE
          With(find(docs, query, MAX_POOL(pageLimit)), LAMBDA pool :
          With(sortByRelevance(docs, pool, term, clock), LAMBDA sorted :
            IF 2 \in failing
              THEN [NoResponse EXCEPT
                      !.endpoint = "search", !.status = 500, !.term = term,
                      !.request = request,
                      !.calls = <<findCall(TRUE, Len(pool)), countCall(FALSE, 0)>>]
            ELSE
              With(countDocuments(docs, query), LAMBDA totalMatches :
                LET totalScored == Len(sorted)
                IN  [endpoint |-> "search", status |-> 200,
                     data |-> pageOf(sorted, pageNum, pageLimit),
                     page |-> pageNum, itemsPerPage |-> pageLimit,
                     totalPages |-> pageCount(totalMatches, totalScored, pageLimit),
                     totalItems |-> totalMatches, totalItemsScored |-> totalScored,
                     note |-> poolNote(totalMatches, totalScored),
                     calls |-> <<findCall(TRUE, Len(pool)),
                                 countCall(TRUE, totalMatches)>>,
                     term |-> term, request |-> request]))))

\* A mutant of needsFallback: the simple query is never tried.
needsFallbackNever(manga) == FALSE

\* if (manga.length === 0) of line 372
needsFallback(manga) == Len(manga) = 0

\* The search branch of GET /manga (lines 234-428, search non-empty): data is the
\* five most relevant of the first 30 matches, or of the first 10 matches of the
\* simple query when there are none.  page and limit keep their defaults; failing
\* is as for searchHandler.
listHandler(search, genre, status, failing, docs, clock) ==
  LET \* const x = value; Body(x)
      With(value, Body(_)) == CHOOSE r \in {Body(x) : x \in {value}} : TRUE
      query == [search |-> search, filter |-> "prioritized",
                genre |-> genre, status |-> status]
      simpleQuery == [search |-> search, filter |-> "simple", genre |-> "", status |-> ""]
      request == <<search, genre, status, failing>>
      findCall(filter, ok, n) == StoreCall("find", filter, ok, n)
      \* the inner try block, whose catch sets manga = []: <<manga, store calls>>
      tried ==
        IF 1 \in failing
          THEN <<<<>>, <<findCall("prioritized", FALSE, 0)>>>>
        ELSE
          With(find(docs, query, 30), LAMBDA allResults :
          With(slice(sortByRelevance(docs, allResults, search, clock), 0, 5), LAMBDA manga :
            IF ~needsFallback(manga)
              THEN <<manga, <<findCall("prioritized", TRUE, Len(allResults))>>>>
            ELSE IF 2 \in failing
              THEN <<<<>>, <<findCall("prioritized", TRUE, Len(allResults)),
                             findCall("simple", FALSE, 0)>>>>
            ELSE
              With(find(docs, simpleQuery, 10), LAMBDA simpleResults :
                <<slice(sortByRelevance(docs, simpleResults, search, clock), 0, 5),
                  <<findCall("prioritized", TRUE, Len(allResults)),
                    findCall("simple", TRUE, Len(simpleResults))>>>>)))
  IN  With(tried, LAMBDA t :
        IF (Len(t[2]) + 1) \in failing
          THEN [NoResponse EXCEPT
                  !.endpoint = "list", !.status = 500, !.term = search,
                  !.request = request,
                  !.calls = Append(t[2], StoreCall("count", "prioritized", FALSE, 0))]
        ELSE
          With(countDocuments(docs, query), LAMBDA total :
            [endpoint |-> "list", status |-> 200, data |-> t[1],
             page |-> 1, itemsPerPage |-> 20,
             totalPages |-> ceilDiv(total, 20),
             totalItems |-> total, totalItemsScored |-> 0, note |-> FALSE,
             calls |-> Append(t[2], StoreCall("count", "prioritized", TRUE, total)),
             term |-> search, request |-> request]))

(***************************************************************************)
(* Search requests.                                                        *)
(***************************************************************************)
MaxCorpus == 2
BulkTitles == 100
MaxPage == 3

PageInputs  == {<<>>, <<0>>} \cup {<<p>> : p \in 1..MaxPage}
LimitInputs == {<<>>, <<2>>, <<50>>}
GenreInputs == {"", "Action"}
StatusInputs == {"", "Completed"}

\* the catalogues of up to MaxCorpus documents
SmallCatalogs == UNION {[1..n -> CatalogDocs] : n \in 0..MaxCorpus}

\* the same, of documents that are recent on day 0 and no longer on day 1
SearchDocs == {WithLastUpdated(x, <<0 - RecentDays>>) : x \in CatalogTexts}
SearchCatalogs == UNION {[1..n -> SearchDocs] : n \in 0..MaxCorpus}

\* large catalogues: BulkTitles copies of "Onessa", with "One" before or after them
BulkDoc == WithLastUpdated([title |-> TitleOnessa, alternativeTitles |-> <<>>,
                            genres |-> {}, status |-> "Completed"], <<0>>)
ExactDoc == WithLastUpdated([title |-> TitleOne, alternativeTitles |-> <<>>,
                             genres |-> {"Action"}, status |-> "Ongoing"],
                            <<0 - RecentDays>>)
BulkCatalogs ==
  {head \o [i \in 1..BulkTitles |-> BulkDoc] \o tail :
     head \in {<<>>, <<ExactDoc>>}, tail \in {<<>>, <<ExactDoc>>}}

NoSession == [q |-> NoParam, limit |-> <<>>, pages |-> <<>>, aged |-> FALSE]

\* GET /manga/search?q=&search=&page=&limit=
SearchManga(q, search, page, limit, failing) ==
  /\ resp = NoResponse
  /\ resp' = searchHandler(q, search, page, limit, failing, corpus, now)
  /\ UNCHANGED <<corpus, now, session, ratingVars, scoreVars, libraryVars>>

\* GET /manga?search=&genre=&status=
ListManga(search, genre, status, failing) ==
  /\ resp = NoResponse
  /\ search # NoParam /\ search # <<>>
  /\ resp' = listHandler(search, genre, status, failing, corpus, now)
  /\ UNCHANGED <<corpus, now, session, ratingVars, scoreVars, libraryVars>>

\* The client takes the response.
TakeResponse ==
  /\ resp # NoResponse
  /\ resp' = NoResponse
  /\ UNCHANGED <<corpus, now, session, ratingVars, scoreVars, libraryVars>>

(***************************************************************************)
(* A client paging through the results of one query with one limit.        *)
(***************************************************************************)
isRecent(doc, clock) == doc.lastUpdated # <<>> /\ clock - doc.lastUpdated[1] <= RecentDays

\* GET /manga/search for page number page of the session's query; the first
\* request of a session chooses the query and the limit.
PagedSearch(q, limit, page) ==
  /\ session = NoSession \/ (session.q = q /\ session.limit = limit)
  /\ \E r \in {searchHandler(q, NoParam, <<page>>, limit, {}, corpus, now)} :
       LET pages == IF session = NoSession THEN [p \in 1..MaxPage |-> <<>>]
                                           ELSE session.pages
       IN  /\ r.status = 200
           /\ session' = [q |-> q, limit |-> limit,
                          pages |-> [pages EXCEPT ![page] = <<r.data>>],
                          aged |-> session.aged]
  /\ UNCHANGED <<corpus, now, resp, ratingVars, scoreVars, libraryVars>>

EndSession ==
  /\ session # NoSession
  /\ session' = NoSession
  /\ UNCHANGED <<corpus, now, resp, ratingVars, scoreVars, libraryVars>>

\* The clock advances by a day; the session notes whether a document stops
\* being recent meanwhile.
Tick ==
  /\ now < MaxClock
  /\ now' = now + 1
  /\ session' = IF /\ session # NoSession
                   /\ \E i \in 1..Len(corpus) :
                        isRecent(corpus[i], now) # isRecent(corpus[i], now + 1)
                  THEN [session EXCEPT !.aged = TRUE]
                  ELSE session
  /\ UNCHANGED <<corpus, resp, ratingVars, scoreVars, libraryVars>>

(***************************************************************************)
(* Bookmarks: POST /bookmarks and DELETE /bookmarks/:mangaId of            *)
(* src/src/routes/bookmarks.js.  A handler runs from one await to the next *)
(* without interruption; between two awaits the handlers of other requests *)
(* may run.  Each action below is one such stretch of a handler together   *)
(* with the store operation it awaits.  Reads that change nothing          *)
(* (Chapter.findOne, populate) are folded into the neighbouring step.      *)
(***************************************************************************)
MaxBookmarkRequests == 4
MaxInFlight == 2

BookmarkSlots == 1..MaxInFlight
Titles == {"t1"}
BookmarkPairs == Users \X Titles

IdleRequest == [kind |-> "none", userId |-> 0, mangaId |-> "", pc |-> "idle", status |-> 0]
Request(kind, userId, mangaId, pc, status) ==
  [kind |-> kind, userId |-> userId, mangaId |-> mangaId, pc |-> pc, status |-> status]
Finished(req, status) == [req EXCEPT !.pc = "done", !.status = status]
IsFree(req) == req.pc \in {"idle", "done"}
PairOf(req) == <<req.userId, req.mangaId>>

\* The unique index { userId: 1, mangaId: 1 } without its uniqueness.
uniqueIndexAllowsAny(collection, pair) == TRUE

\* bookmarkSchema.index({ userId: 1, mangaId: 1 }, { unique: true }): an insert of a pair
\* that has a record fails with a duplicate-key error.
uniqueIndexAllows(collection, pair) == collection[pair] = 0

\* router.post('/'): the request arrives and Bookmark.findOne({ userId, mangaId }) answers.
PostBookmark(slot, userId, mangaId) ==
  /\ bookmarkRequests < MaxBookmarkRequests
  /\ IsFree(bookmarkReqs[slot])
  /\ bookmarkRequests' = bookmarkRequests + 1
  /\ bookmarkReqs' =
       [bookmarkReqs EXCEPT ![slot] =
          IF bookmarks[<<userId, mangaId>>] > 0
          THEN Request("POST", userId, mangaId, "done", 400)
          ELSE Request("POST", userId, mangaId, "save", 0)]
  /\ UNCHANGED <<bookmarks, bookmarkCount>>
  /\ UNCHANGED exceptBookmarkVars

\* router.post('/'): await bookmark.save(); a duplicate-key error is caught and answered 500.
PostBookmarkSave(slot) ==
  LET req == bookmarkReqs[slot] IN
  /\ req.kind = "POST" /\ req.pc = "save"
  /\ IF uniqueIndexAllows(bookmarks, PairOf(req))
     THEN /\ bookmarks' = [bookmarks EXCEPT ![PairOf(req)] = @ + 1]
          /\ bookmarkReqs' = [bookmarkReqs EXCEPT ![slot].pc = "inc"]
     ELSE /\ bookmarkReqs' = [bookmarkReqs EXCEPT ![slot] = Finished(req, 500)]
          /\ UNCHANGED bookmarks
  /\ UNCHANGED <<bookmarkCount, bookmarkRequests>>
  /\ UNCHANGED exceptBookmarkVars

\* router.post('/'): Manga.findByIdAndUpdate(mangaId, { $inc: { 'stats.bookmarkCount': 1 } }), then 201.
PostBookmarkInc(slot) ==
  LET req == bookmarkReqs[slot] IN
  /\ req.kind = "POST" /\ req.pc = "inc"
  /\ bookmarkCount' = [bookmarkCount EXCEPT ![req.mangaId] = @ + 1]
  /\ bookmarkReqs' = [bookmarkReqs EXCEPT ![slot] = Finished(req, 201)]
  /\ UNCHANGED <<bookmarks, bookmarkRequests>>
  /\ UNCHANGED exceptBookmarkVars

\* router.delete('/:mangaId'): the request arrives and Bookmark.findOneAndDelete answers.
DeleteBookmark(slot, userId, mangaId) ==
  /\ bookmarkRequests < MaxBookmarkRequests
  /\ IsFree(bookmarkReqs[slot])
  /\ bookmarkRequests' = bookmarkRequests + 1
  /\ IF bookmarks[<<userId, mangaId>>] > 0
     THEN /\ bookmarks' = [bookmarks EXCEPT ![<<userId, mangaId>>] = @ - 1]
          /\ bookmarkReqs' =
               [bookmarkReqs EXCEPT ![slot] = Request("DELETE", userId, mangaId, "dec", 0)]
     ELSE /\ bookmarkReqs' =
               [bookmarkReqs EXCEPT ![slot] = Request("DELETE", userId, mangaId, "done", 404)]
          /\ UNCHANGED bookmarks
  /\ UNCHANGED bookmarkCount
  /\ UNCHANGED exceptBookmarkVars

\* router.delete('/:mangaId'): Manga.findByIdAndUpdate(mangaId, { $inc: { 'stats.bookmarkCount': -1 } }), then 200.
DeleteBookmarkDec(slot) ==
  LET req == bookmarkReqs[slot] IN
  /\ req.kind = "DELETE" /\ req.pc = "dec"
  /\ bookmarkCount' = [bookmarkCount EXCEPT ![req.mangaId] = @ - 1]
  /\ bookmarkReqs' = [bookmarkReqs EXCEPT ![slot] = Finished(req, 200)]
  /\ UNCHANGED <<bookmarks, bookmarkRequests>>
  /\ UNCHANGED exceptBookmarkVars

(***************************************************************************)
(* Detail views: GET /manga/:id and GET /manga/slug/:slug of               *)
(* src/src/routes/manga.js.  The handler loads the title document, and     *)
(* unless skipIncrement is given adds one to the loaded stats.views and    *)
(* saves the document, which writes the new value of the modified path.    *)
(***************************************************************************)
MaxViewRequests == 4

ViewSlots == 1..MaxInFlight
ViewEndpoints == {"id", "slug"}

IdleView == [endpoint |-> "none", skipIncrement |-> NoParam, loaded |-> 0,
             alone |-> FALSE, pc |-> "idle"]

\* the values of the query parameter skipIncrement: absent, empty, "true", "false"
SkipInputs == {NoParam, <<>>, <<"t","r","u","e">>, <<"f","a","l","s","e">>}

\* A mutant of isTruthy: only the value "true" counts.
isTruthyOnlyTrue(value) == value = <<"t","r","u","e">>

\* The truth value JavaScript gives a query parameter, as in !req.query.skipIncrement:
\* undefined and the empty string are false, every other string is true.
isTruthy(value) == value # NoParam /\ value # <<>>

\* router.get('/:id'), router.get('/slug/:slug'): the request arrives and Manga.findById /
\* Manga.findOne({ slug }) answers with the document; with skipIncrement the handler responds
\* after Chapter.find without writing.  A request notes whether another one that will
\* write is in flight while it is (alone).
GetManga(slot, endpoint, skipIncrement) ==
  /\ viewRequests < MaxViewRequests
  /\ viewReqs[slot].pc \in {"idle", "done"}
  /\ viewRequests' = viewRequests + 1
  /\ viewReqs' =
       [s \in ViewSlots |->
          IF s = slot
            THEN [endpoint |-> endpoint, skipIncrement |-> skipIncrement, loaded |-> views,
                  alone |-> \A other \in ViewSlots : viewReqs[other].pc # "save",
                  pc |-> IF isTruthy(skipIncrement) THEN "done" ELSE "save"]
          ELSE IF viewReqs[s].pc = "save" /\ ~isTruthy(skipIncrement)
            THEN [viewReqs[s] EXCEPT !.alone = FALSE]
          ELSE viewReqs[s]]
  /\ UNCHANGED views
  /\ UNCHANGED exceptViewVars

\* manga.stats.views += 1; await manga.save(): the value loaded plus one is stored;
\* save() writes the modified path stats.views only.
GetMangaSave(slot) ==
  /\ viewReqs[slot].pc = "save"
  /\ views' = viewReqs[slot].loaded + 1
  /\ viewReqs' = [viewReqs EXCEPT ![slot].pc = "done"]
  /\ UNCHANGED viewRequests
  /\ UNCHANGED exceptViewVars

(***************************************************************************)
(* Chapters and title deletion: POST /chapters and DELETE /chapters/:id of *)
(* src/src/routes/chapters.js, DELETE /manga/:id of                        *)
(* src/src/routes/manga.js, for one title.  A chapter is identified by its *)
(* chapterNumber.  Each action is the stretch of a handler up to and       *)
(* including one awaited store operation.                                  *)
(***************************************************************************)
MaxChapters == 2
MaxChapterRequests == 4

ChapterNumbers == 1..MaxChapters
ChapterSlots == 1..MaxInFlight

\* `before` is the title's lastUpdated when the request arrived.
IdleChapterRequest == [kind |-> "none", chapter |-> 0, pc |-> "idle", status |-> 0, before |-> 0]
ChapterRequest(kind, chapter, pc, status) ==
  [kind |-> kind, chapter |-> chapter, pc |-> pc, status |-> status, before |-> titleLastUpdated]
ChapterSlotFree(slot) == chapterReqs[slot].pc \in {"idle", "done"}
Respond(slot, status) == [chapterReqs EXCEPT ![slot].pc = "done", ![slot].status = status]

\* router.post('/') of chapters.js: new Chapter(req.body), await chapter.save().  The
\* unique index { mangaId, chapterNumber } fails the save of a number that has a record;
\* nothing looks the title up.
PostChapter(slot, chapter) ==
  /\ chapterRequests < MaxChapterRequests
  /\ ChapterSlotFree(slot)
  /\ chapterRequests' = chapterRequests + 1
  /\ IF chapter \in chapters
     THEN /\ chapterReqs' = [chapterReqs EXCEPT ![slot] = ChapterRequest("POST", chapter, "done", 500)]
          /\ UNCHANGED chapters
     ELSE /\ chapterReqs' = [chapterReqs EXCEPT ![slot] = ChapterRequest("POST", chapter, "inc", 0)]
          /\ chapters' = chapters \cup {chapter}
  /\ UNCHANGED <<mangaStored, totalChapters, titleLastUpdated>>
  /\ UNCHANGED exceptChapterVars

\* router.post('/') of chapters.js: Manga.findByIdAndUpdate(mangaId, { $inc: totalChapters 1 }),
\* which updates nothing when the title has no record; then 201.
PostChapterInc(slot) ==
  /\ chapterReqs[slot].kind = "POST" /\ chapterReqs[slot].pc = "inc"
  /\ totalChapters' = IF mangaStored THEN totalChapters + 1 ELSE totalChapters
  /\ chapterReqs' = Respond(slot, 201)
  /\ UNCHANGED <<mangaStored, chapters, titleLastUpdated, chapterRequests>>
  /\ UNCHANGED exceptChapterVars

\* router.delete('/:id') of chapters.js: Chapter.findById, 404 when there is no record.
DeleteChapter(slot, chapter) ==
  /\ chapterRequests < MaxChapterRequests
  /\ ChapterSlotFree(slot)
  /\ chapterRequests' = chapterRequests + 1
  /\ chapterReqs' =
       [chapterReqs EXCEPT ![slot] =
          IF chapter \in chapters
          THEN ChapterRequest("DELETE", chapter, "dec", 0)
          ELSE ChapterRequest("DELETE", chapter, "done", 404)]
  /\ UNCHANGED <<mangaStored, chapters, totalChapters, titleLastUpdated>>
  /\ UNCHANGED exceptChapterVars

\* router.delete('/:id') of chapters.js: Manga.findByIdAndUpdate(chapter.mangaId, { $inc: totalChapters -1 }).
DeleteChapterDec(slot) ==
  /\ chapterReqs[slot].kind = "DELETE" /\ chapterReqs[slot].pc = "dec"
  /\ totalChapters' = IF mangaStored THEN totalChapters - 1 ELSE totalChapters
  /\ chapterReqs' = [chapterReqs EXCEPT ![slot].pc = "remove"]
  /\ UNCHANGED <<mangaStored, chapters, titleLastUpdated, chapterRequests>>
  /\ UNCHANGED exceptChapterVars

\* router.delete('/:id') of chapters.js: Chapter.findByIdAndDelete(req.params.id), then 200.
DeleteChapterRemove(slot) ==
  /\ chapterReqs[slot].kind = "DELETE" /\ chapterReqs[slot].pc = "remove"
  /\ chapters' = chapters \ {chapterReqs[slot].chapter}
  /\ chapterReqs' = Respond(slot, 200)
  /\ UNCHANGED <<mangaStored, totalChapters, titleLastUpdated, chapterRequests>>
  /\ UNCHANGED exceptChapterVars

\* router.delete('/:id') of manga.js: Manga.findByIdAndDelete(req.params.id), 404 when there
\* is no record.
DeleteManga(slot) ==
  /\ chapterRequests < MaxChapterRequests
  /\ ChapterSlotFree(slot)
  /\ chapterRequests' = chapterRequests + 1
  /\ mangaStored' = FALSE
  /\ chapterReqs' =
       [chapterReqs EXCEPT ![slot] =
          IF mangaStored
          THEN ChapterRequest("DELETE_MANGA", 0, "cascade", 0)
          ELSE ChapterRequest("DELETE_MANGA", 0, "done", 404)]
  /\ UNCHANGED <<chapters, totalChapters, titleLastUpdated>>
  /\ UNCHANGED exceptChapterVars

\* router.delete('/:id') of manga.js: Chapter.deleteMany({ mangaId }), then 200.
DeleteMangaCascade(slot) ==
  /\ chapterReqs[slot].kind = "DELETE_MANGA" /\ chapterReqs[slot].pc = "cascade"
  /\ chapters' = {}
  /\ chapterReqs' = Respond(slot, 200)
  /\ UNCHANGED <<mangaStored, totalChapters, titleLastUpdated, chapterRequests>>
  /\ UNCHANGED exceptChapterVars

(***************************************************************************)
(* Building the candidate filter, and GET /manga/search-test               *)
(* (manga.js 204-232), over a collection with a title that holds a         *)
(* metacharacter.                                                          *)
(***************************************************************************)
MaxTokens == 5

WordOne  == <<"o","n","e">>
WordShot == <<"s","h","o","t">>
WordThe  == <<"T","h","e">>
WordOn   == <<"o","n">>
QueryWords == {WordOne, WordShot, WordThe, WordOn}

RECURSIVE JoinWords(_)
JoinWords(words) ==
  IF Len(words) = 1 THEN words[1]
  ELSE words[1] \o <<" ">> \o JoinWords(Tail(words))

\* queries of 1..MaxTokens words separated by one space
TokenQueries ==
  {JoinWords(words) : words \in UNION {[1..n -> QueryWords] : n \in 1..MaxTokens}}

\* queries that hold metacharacters of the pattern language
QueryDotted  == <<"o",".","e">>
QueryAnyChar == <<".">>
QueryAnchor  == <<"^","o","n","e">>
QueryEnd     == <<"n","e","$">>
QueryEscape  == <<"o","\\","e">>
LiteralQueries == {QueryDotted, QueryAnyChar, QueryAnchor, QueryEnd, QueryEscape}

\* the values of the query-string parameter the filter is built for
FilterInputs ==
  TokenQueries \cup {<<" ">> \o q \o <<" ">> : q \in {JoinWords(<<WordOne, w>>) : w \in QueryWords}}
    \cup LiteralQueries

\* the values of the query-string parameter q of /search-test
TestInputs == {NoParam, <<>>, QueryOne, QueryOn} \cup LiteralQueries

TitleDotted == <<"O",".","e">>
LiteralCatalog ==
  << WithLastUpdated([title |-> TitleOne, alternativeTitles |-> <<>>,
                      genres |-> {}, status |-> "Ongoing"], <<0>>),
     WithLastUpdated([title |-> TitleDotted, alternativeTitles |-> <<TitleOneShot>>,
                      genres |-> {}, status |-> "Ongoing"], <<0>>),
     WithLastUpdated([title |-> TitleZone, alternativeTitles |-> <<TitleOn>>,
                      genres |-> {}, status |-> "Ongoing"], <<0>>) >>

NoFilter == [called |-> FALSE]
NoTestResponse == [called |-> FALSE]

\* Both handlers are functions of the request and the collection alone; a behaviour of the
\* model serves one request.
NoRequestServed == built = NoFilter /\ testResp = NoTestResponse

\* The filter of buildSearchOrConditions(search) handed to Manga.find: for each clause of the
\* $or, the records (by _id) of the collection the clause selects.
BuildFilter(search) ==
  /\ NoRequestServed
  /\ \E or \in {buildSearchOrConditions(search)} :
       built' = [called |-> TRUE, search |-> search, or |-> or,
                 selects |-> [k \in 1..Len(or) |->
                                {i \in 1..Len(corpus) : clauseMatches(corpus[i], or[k])}]]
  /\ UNCHANGED testResp
  /\ UNCHANGED exceptFilterVars

\* router.get('/search-test'): Manga.find({ title: { $regex: q, $options: 'i' } }).limit(5);
\* without q the handler answers success: false.
SearchTest(q) ==
  /\ NoRequestServed
  /\ testResp' =
       IF q = NoParam \/ q = <<>>
         THEN [called |-> TRUE, success |-> FALSE, query |-> q, pattern |-> <<>>,
               results |-> <<>>]
         ELSE [called |-> TRUE, success |-> TRUE, query |-> q, pattern |-> q,
               results |-> LET found == SelectSeq([i \in 1..Len(corpus) |-> i],
                                                  LAMBDA i : regexTest(q, corpus[i].title))
                           IN  SubSeq(found, 1, Min(Len(found), 5))]
  /\ UNCHANGED built
  /\ UNCHANGED exceptFilterVars

(***************************************************************************)
(* One search request sent twice.  A client sends GET /manga/search, keeps *)
(* the response, and later sends the same request again; the corpus stays  *)
(* as it is while the clock may advance between the two.                   *)
(***************************************************************************)
NoRepeat == [request |-> <<>>, first |-> <<>>, firstDay |-> 0,
             second |-> <<>>, secondDay |-> 0]

\* GET /manga/search?q=&page=&limit=, for the first time
SearchFirst(q, page, limit) ==
  /\ repeat = NoRepeat
  /\ \E r \in {searchHandler(q, NoParam, page, limit, {}, corpus, now)} :
       /\ r.status = 200
       /\ repeat' = [NoRepeat EXCEPT !.request = <<q, page, limit>>,
                                     !.first = <<r.data>>, !.firstDay = now]
  /\ UNCHANGED exceptRepeatVars

\* The same request again.
SearchAgain ==
  /\ repeat.first # <<>> /\ repeat.second = <<>>
  /\ \E r \in {searchHandler(repeat.request[1], NoParam, repeat.request[2],
                               repeat.request[3], {}, corpus, now)} :
       /\ r.status = 200
       /\ repeat' = [repeat EXCEPT !.second = <<r.data>>, !.secondDay = now]
  /\ UNCHANGED exceptRepeatVars

(***************************************************************************)
(* The rate-limited logger (RateLimitedLogger and the wrapper around the   *)
(* winston logger, src/src/models/Chapter.js 59-164).  The clock is kept   *)
(* in seconds: secondKey = floor(now / 1000) is the clock itself and       *)
(* minuteKey = floor(now / 60000) its quotient by 60.  The clock does not  *)
(* run backwards.                                                          *)
(***************************************************************************)
maxLogsPerSecond == 100
maxLogsPerMinute == 3000

MaxLogSteps == 5

\* the second the process starts in: the first of a minute, in seconds since 1970
LogStart == 1700000040

LogLevels == {"error", "warn", "info", "debug"}

\* this.logCounts[key], undefined read as 0
CountOf(counts, key) == IF key \in DOMAIN counts THEN counts[key] ELSE 0

\* this.logCounts[key] = value
SetCount(counts, key, value) ==
  [k \in DOMAIN counts \cup {key} |-> IF k = key THEN value ELSE counts[k]]

\* A mutant of canLog: the limits are compared with > instead of >=.
canLogOneMore(counts, clock) ==
  LET secondKey == clock
      minuteKey == clock \div 60
      c1 == IF CountOf(counts, secondKey) = 0 THEN SetCount(counts, secondKey, 0) ELSE counts
      c2 == IF CountOf(c1, minuteKey) = 0 THEN SetCount(c1, minuteKey, 0) ELSE c1
  IN  IF c2[secondKey] > maxLogsPerSecond THEN [ok |-> FALSE, counts |-> c2]
      ELSE IF c2[minuteKey] > maxLogsPerMinute THEN [ok |-> FALSE, counts |-> c2]
      ELSE LET c3 == SetCount(c2, secondKey, c2[secondKey] + 1)
               c4 == SetCount(c3, minuteKey, c3[minuteKey] + 1)
           IN  [ok |-> TRUE,
                counts |-> [k \in {x \in DOMAIN c4 : ~(x < minuteKey - 2)} |-> c4[k]]]

\* canLog(level) at time clock: whether the call is let through, and logCounts after it.
\* The level is not looked at.
canLog(counts, clock) ==
  LET secondKey == clock
      minuteKey == clock \div 60
      \* if (!this.logCounts[key]) this.logCounts[key] = 0
      c1 == IF CountOf(counts, secondKey) = 0 THEN SetCount(counts, secondKey, 0) ELSE counts
      c2 == IF CountOf(c1, minuteKey) = 0 THEN SetCount(c1, minuteKey, 0) ELSE c1
  IN  IF c2[secondKey] >= maxLogsPerSecond THEN [ok |-> FALSE, counts |-> c2]
      ELSE IF c2[minuteKey] >= maxLogsPerMinute THEN [ok |-> FALSE, counts |-> c2]
      ELSE LET c3 == SetCount(c2, secondKey, c2[secondKey] + 1)
               c4 == SetCount(c3, minuteKey, c3[minuteKey] + 1)
               \* delete the keys below floor(now / 60000) - 2
           IN  [ok |-> TRUE,
                counts |-> [k \in {x \in DOMAIN c4 : ~(x < minuteKey - 2)} |-> c4[k]]]

\* the logger between two calls: logCounts, the calls let through per second, the last result
LoggerState(counts, through, ok) == [counts |-> counts, through |-> through, ok |-> ok]

\* one call of rateLimitedLogger.error / warn / info / debug at time clock
logOnce(state, clock) ==
  CHOOSE next \in
    {LoggerState(r.counts,
                 IF r.ok THEN SetCount(state.through, clock, CountOf(state.through, clock) + 1)
                         ELSE state.through,
                 r.ok) : r \in {canLog(state.counts, clock)}} : TRUE

\* for (let i = 0; i < n; i++) logger.info(...), all within the second clock:
\* n calls one after the other, evaluated as the first half of them and then the rest
RECURSIVE logLoop(_, _, _)
logLoop(state, clock, n) ==
  IF n = 0 THEN state
  ELSE IF n = 1 THEN logOnce(state, clock)
  ELSE CHOOSE last \in {logLoop(half, clock, n - n \div 2) :
                          half \in {logLoop(state, clock, n \div 2)}} : TRUE

\* maxLogsPerSecond calls in every second from clock on, for the given number of seconds
RECURSIVE logSustained(_, _, _)
logSustained(state, clock, seconds) ==
  IF seconds = 0 THEN state
  ELSE CHOOSE last \in {logSustained(next, clock + 1, seconds - 1) :
                          next \in {logLoop(state, clock, maxLogsPerSecond)}} : TRUE

NoLog == [level |-> "none", calls |-> 0, ok |-> FALSE]

LoggerNow == LoggerState(logCounts, letThrough, lastLog.ok)

\* the logger's variables after a step that leaves it in state at time clock
LoggerBecomes(state, clock, level, calls) ==
  /\ logSteps < MaxLogSteps
  /\ logSteps' = logSteps + 1
  /\ logClock' = clock
  /\ logCounts' = state.counts
  /\ letThrough' = state.through
  /\ lastLog' = [level |-> level, calls |-> calls, ok |-> state.ok]
  /\ UNCHANGED exceptLoggerVars

\* rateLimitedLogger[level](message)
Log(level) ==
  \E state \in {logOnce(LoggerNow, logClock)} : LoggerBecomes(state, logClock, level, 1)

\* a loop of n calls of logger.info within one second (test-logging.js, Test 1)
LogLoop(n) ==
  \E state \in {logLoop(LoggerNow, logClock, n)} : LoggerBecomes(state, logClock, "info", n)

\* a fresh logger under sustained load: maxLogsPerSecond calls a second for some seconds
LogSustained(seconds) ==
  /\ logCounts = <<>>
  /\ \E state \in {logSustained(LoggerNow, logClock, seconds)} :
       LoggerBecomes(state, logClock + seconds, "info", seconds * maxLogsPerSecond)

\* the clock advances while nothing is logged
LogTick(seconds) ==
  /\ logSteps < MaxLogSteps
  /\ logSteps' = logSteps + 1
  /\ logClock' = logClock + seconds
  /\ lastLog' = NoLog
  /\ UNCHANGED <<logCounts, letThrough>>
  /\ UNCHANGED exceptLoggerVars

(***************************************************************************)
(* Concurrent POST /ratings requests (ratings.js 53-169).  A handler runs  *)
(* from one await to the next without interruption; between two awaits the *)
(* other requests may run.  Its awaits: Rating.findOne, the save of the    *)
(* Rating record, Manga.findById, manga.save().                            *)
(***************************************************************************)
MaxRacingRequests == 3

RatingSlots == 1..MaxInFlight

\* the users and the values of the racing requests
RacingUsers == {1, 2}
RacingRatings == {2, 5}

IdleRatingRequest ==
  [userId |-> 0, rating |-> 0, oldRating |-> 0, loaded |-> <<0, 0>>, pc |-> "idle"]

RatingInFlight(req) == req.pc \notin {"idle", "done"}

\* The request arrives and Rating.findOne({ userId, mangaId }) answers (line 64).
\* A user sends the next request after the response to the last.
PostRatingFind(slot, userId, rating) ==
  /\ ratingRequests < MaxRacingRequests
  /\ ~RatingInFlight(ratingReqs[slot])
  /\ \A other \in RatingSlots :
       RatingInFlight(ratingReqs[other]) => ratingReqs[other].userId # userId
  /\ ratingRequests' = ratingRequests + 1
  /\ ratingReqs' = [ratingReqs EXCEPT ![slot] =
                      [userId |-> userId, rating |-> rating, oldRating |-> ratingOf[userId],
                       loaded |-> <<0, 0>>, pc |-> "record"]]
  /\ UNCHANGED <<ratingOf, totalRatings, averageRating>>
  /\ UNCHANGED exceptRatingRaceVars

\* await existingRating.save() (lines 73, 83): the Rating record is written.
PostRatingRecord(slot) ==
  /\ ratingReqs[slot].pc = "record"
  /\ ratingOf' = [ratingOf EXCEPT ![ratingReqs[slot].userId] = ratingReqs[slot].rating]
  /\ ratingReqs' = [ratingReqs EXCEPT ![slot].pc = "load"]
  /\ UNCHANGED <<totalRatings, averageRating, ratingRequests>>
  /\ UNCHANGED exceptRatingRaceVars

\* const manga = await Manga.findById(mangaId) (line 87): the stats are read.
PostRatingLoad(slot) ==
  /\ ratingReqs[slot].pc = "load"
  /\ ratingReqs' = [ratingReqs EXCEPT ![slot].loaded = <<totalRatings, averageRating>>,
                                      ![slot].pc = "stats"]
  /\ UNCHANGED <<ratingOf, totalRatings, averageRating, ratingRequests>>
  /\ UNCHANGED exceptRatingRaceVars

\* Lines 96-152: the stats are computed from the document that was read, and
\* manga.save() writes the paths whose value differs from the one read.
PostRatingStats(slot) ==
  /\ ratingReqs[slot].pc = "stats"
  /\ \E req \in {ratingReqs[slot]} :
       \E stats \in {IF req.oldRating = 0
                       THEN NewRatingStats(req.loaded[1], req.loaded[2], req.rating)
                       ELSE UpdatedRatingStats(req.loaded[1], req.loaded[2],
                                               req.oldRating, req.rating)} :
         /\ totalRatings' = IF stats[1] # req.loaded[1] THEN stats[1] ELSE totalRatings
         /\ averageRating' = IF stats[2] # req.loaded[2] THEN stats[2] ELSE averageRating
  /\ ratingReqs' = [ratingReqs EXCEPT ![slot].pc = "done"]
  /\ UNCHANGED <<ratingOf, ratingRequests>>
  /\ UNCHANGED exceptRatingRaceVars

(***************************************************************************)
(* One-time passwords: OTP.verifyOTP (src/unnamed/part_014 74-92) as it is *)
(* called by POST /auth/verify-email, /verify-otp and /reset-password.     *)
(* One OTP record has been created for an (email, otp, purpose); every     *)
(* request carries that triple.  verifyOTP awaits findOne and then save(). *)
(***************************************************************************)
MaxOtpRequests == 3

OtpSlots == 1..MaxInFlight
OtpEndpoints == {"verify-email", "verify-otp", "reset-password"}

IdleOtpRequest == [endpoint |-> "none", pc |-> "idle", isValid |-> FALSE]

\* the record as createOTP stores it
NewOtp == [isUsed |-> FALSE, expired |-> FALSE]

\* The request arrives and findOne({ email, otp, purpose, isUsed: false,
\* expiresAt: { $gt: new Date() } }) answers; without a record verifyOTP returns false.
VerifyOtpFind(slot, endpoint) ==
  /\ otpRequests < MaxOtpRequests
  /\ otpReqs[slot].pc \in {"idle", "done"}
  /\ otpRequests' = otpRequests + 1
  /\ otpReqs' = [otpReqs EXCEPT ![slot] =
                   IF ~otpRecord.isUsed /\ ~otpRecord.expired
                     THEN [endpoint |-> endpoint, pc |-> "save", isValid |-> FALSE]
                     ELSE [endpoint |-> endpoint, pc |-> "done", isValid |-> FALSE]]
  /\ UNCHANGED <<otpRecord, otpAccepted>>
  /\ UNCHANGED exceptOtpVars

\* otpRecord.isUsed = true; await otpRecord.save(); return true
VerifyOtpSave(slot) ==
  /\ otpReqs[slot].pc = "save"
  /\ otpRecord' = [otpRecord EXCEPT !.isUsed = TRUE]
  /\ otpReqs' = [otpReqs EXCEPT ![slot].pc = "done", ![slot].isValid = TRUE]
  /\ otpAccepted' = otpAccepted + 1
  /\ UNCHANGED otpRequests
  /\ UNCHANGED exceptOtpVars

\* The time passes expiresAt.
OtpExpires ==
  /\ ~otpRecord.expired
  /\ otpRecord' = [otpRecord EXCEPT !.expired = TRUE]
  /\ UNCHANGED <<otpReqs, otpRequests, otpAccepted>>
  /\ UNCHANGED exceptOtpVars

(***************************************************************************)
(* Comment reactions: POST /comments/:id/reactions                         *)
(* (src/src/routes/mangaRequests.js 287-364), one request at a time.       *)
(* The handler works on comment.reactionCounts and comment.userReactions.  *)
(* The Comment schema of src/src/models/Comment.js declares neither path;  *)
(* with such a schema the loaded document shows neither, and save() stores *)
(* nothing of what the handler assigned.  Both schemas are modelled:       *)
(* reactionPaths tells whether the paths are declared.                     *)
(***************************************************************************)
MaxReactionRequests == 4

ReactionInputs == {"likes", "dislikes", "love"}

NoCounts == <<>>
ZeroCounts == [likes |-> 0, dislikes |-> 0]

\* a comment without reactions: reactionCounts absent or zero
FreshComments ==
  {[reactionCounts |-> counts, userReactions |-> <<>>] : counts \in {NoCounts, <<ZeroCounts>>}}

\* comment.userReactions.find(reaction => reaction.userId.toString() === userId):
\* the index of the first entry of the user, 0 when there is none
findReaction(userReactions, userId) ==
  IF \E i \in 1..Len(userReactions) : userReactions[i].userId = userId
    THEN CHOOSE i \in 1..Len(userReactions) :
           /\ userReactions[i].userId = userId
           /\ \A j \in 1..(i - 1) : userReactions[j].userId # userId
    ELSE 0

\* A mutant of react: a changed reaction leaves the count of the old type as it was.
reactKeepsOldCount(doc, userId, reactionType) ==
  LET counts == IF doc.reactionCounts = NoCounts THEN ZeroCounts ELSE doc.reactionCounts[1]
      i == findReaction(doc.userReactions, userId)
  IN  IF i # 0
        THEN IF doc.userReactions[i].type = reactionType
          THEN [outcome |-> "removed",
                reactionCounts |-> <<[counts EXCEPT ![reactionType] = @ - 1]>>,
                userReactions |-> SelectSeq(doc.userReactions,
                                            LAMBDA reaction : reaction.userId # userId)]
          ELSE [outcome |-> "changed",
                reactionCounts |-> <<[counts EXCEPT ![reactionType] = @ + 1]>>,
                userReactions |-> [doc.userReactions EXCEPT ![i].type = reactionType]]
        ELSE [outcome |-> "added",
              reactionCounts |-> <<[counts EXCEPT ![reactionType] = @ + 1]>>,
              userReactions |-> Append(doc.userReactions,
                                       [userId |-> userId, type |-> reactionType])]

\* Lines 320-348: what the handler makes of the loaded document doc.
react(doc, userId, reactionType) ==
  LET \* if (!comment.reactionCounts) comment.reactionCounts = { likes: 0, dislikes: 0 }
      counts == IF doc.reactionCounts = NoCounts THEN ZeroCounts ELSE doc.reactionCounts[1]
      i == findReaction(doc.userReactions, userId)
  IN  IF i # 0
        THEN IF doc.userReactions[i].type = reactionType
          THEN \* the same type: the reaction is removed
               [outcome |-> "removed",
                reactionCounts |-> <<[counts EXCEPT ![reactionType] = @ - 1]>>,
                userReactions |-> SelectSeq(doc.userReactions,
                                            LAMBDA reaction : reaction.userId # userId)]
          ELSE \* the other type: the reaction is changed
               [outcome |-> "changed",
                reactionCounts |->
                  <<[counts EXCEPT ![doc.userReactions[i].type] = @ - 1,
                                   ![reactionType] = @ + 1]>>,
                userReactions |-> [doc.userReactions EXCEPT ![i].type = reactionType]]
        ELSE \* a new reaction
             [outcome |-> "added",
              reactionCounts |-> <<[counts EXCEPT ![reactionType] = @ + 1]>>,
              userReactions |-> Append(doc.userReactions,
                                       [userId |-> userId, type |-> reactionType])]

NoReaction == [userId |-> 0, reactionType |-> "none", outcome |-> "none"]

\* POST /comments/:id/reactions by userId with body reactionType
PostReaction(userId, reactionType) ==
  /\ reactionRequests < MaxReactionRequests
  /\ reactionRequests' = reactionRequests + 1
  /\ IF reactionType \notin {"likes", "dislikes"}
       THEN \* 400 Invalid reaction type
            /\ lastReaction' = [userId |-> userId, reactionType |-> reactionType,
                                outcome |-> "invalid"]
            /\ UNCHANGED comment
       ELSE \E loaded \in {IF reactionPaths THEN comment
                                             ELSE [reactionCounts |-> NoCounts,
                                                   userReactions |-> <<>>]} :
              \E r \in {react(loaded, userId, reactionType)} :
                /\ lastReaction' = [userId |-> userId, reactionType |-> reactionType,
                                    outcome |-> r.outcome]
                /\ comment' = IF reactionPaths
                                THEN [reactionCounts |-> r.reactionCounts,
                                      userReactions |-> r.userReactions]
                                ELSE comment
  /\ UNCHANGED reactionPaths
  /\ UNCHANGED exceptReactionVars

(***************************************************************************)
(* The account of one user: POST /auth/upload-avatar and                   *)
(* DELETE /auth/delete-account (src/src/routes/auth.js 340-443) with       *)
(* R2ImageUploadService (src/src/services/r2ImageUploadService.js) and     *)
(* userSchema.methods.canUpdateAvatar (src/unnamed/part_008 72-80).        *)
(* A handler runs from one await to the next; time is in days; an avatar   *)
(* object's key is a number, 0 standing for null.                          *)
(***************************************************************************)
MaxAvatarRequests == 3
MaxAvatarDays == 8

AvatarSlots == 1..MaxInFlight

\* The days an avatar stays before it may be replaced.
AvatarCooldownDays == 7

NoDate == <<>>

\* the user after registration, without an avatar
NewAccount == [avatarPublicId |-> 0, avatarUpdatedAt |-> NoDate, isActive |-> TRUE]

IdleAccountRequest ==
  [kind |-> "none", pc |-> "idle", status |-> 0, user |-> NewAccount, key |-> 0]

AccountRequest(kind, pc, status, user, key) ==
  [kind |-> kind, pc |-> pc, status |-> status, user |-> user, key |-> key]

AccountSlotFree(slot) == avatarReqs[slot].pc \in {"idle", "done"}

\* userSchema.methods.canUpdateAvatar at time today:
\* !this.avatarUpdatedAt || this.avatarUpdatedAt < oneWeekAgo
canUpdateAvatar(user, today) ==
  \/ user.avatarUpdatedAt = NoDate
  \/ user.avatarUpdatedAt[1] < today - AvatarCooldownDays

\* an account request arrives at slot
AccountArrives(slot) ==
  /\ avatarRequests < MaxAvatarRequests
  /\ AccountSlotFree(slot)
  /\ avatarRequests' = avatarRequests + 1

\* POST /auth/upload-avatar with a file: User.findById answers, and the handler
\* refuses with 400 when canUpdateAvatar() is false (auth.js 411-424).
UploadAvatarFind(slot) ==
  /\ AccountArrives(slot)
  /\ avatarReqs' = [avatarReqs EXCEPT ![slot] =
                      IF canUpdateAvatar(account, avatarDay)
                        THEN AccountRequest("upload-avatar",
                                            IF account.avatarPublicId # 0 THEN "delete"
                                                                          ELSE "upload",
                                            0, account, 0)
                        ELSE AccountRequest("upload-avatar", "done", 400, account, 0)]
  /\ UNCHANGED <<account, objects, deleteCalls, avatarUpdates, avatarDay>>
  /\ UNCHANGED exceptAccountVars

\* updateUserAvatar: await this.deleteAvatar(user.avatarPublicId)
UploadAvatarDeleteOld(slot) ==
  /\ avatarReqs[slot].pc = "delete"
  /\ objects' = objects \ {avatarReqs[slot].user.avatarPublicId}
  /\ avatarReqs' = [avatarReqs EXCEPT ![slot].pc = "upload"]
  /\ UNCHANGED <<account, deleteCalls, avatarUpdates, avatarRequests, avatarDay>>
  /\ UNCHANGED exceptAccountVars

\* updateUserAvatar: const result = await this.uploadAvatar(buffer); the new
\* object's key is one not used before
UploadAvatarPut(slot) ==
  /\ avatarReqs[slot].pc = "upload"
  /\ \E key \in {avatarRequests * MaxInFlight + slot} :
       /\ objects' = objects \cup {key}
       /\ avatarReqs' = [avatarReqs EXCEPT ![slot].pc = "save", ![slot].key = key]
  /\ UNCHANGED <<account, deleteCalls, avatarUpdates, avatarRequests, avatarDay>>
  /\ UNCHANGED exceptAccountVars

\* updateUserAvatar: avatar, avatarPublicId and avatarUpdatedAt are set on the
\* loaded document and saved; the handler responds with them.
UploadAvatarSave(slot) ==
  /\ avatarReqs[slot].pc = "save"
  /\ account' = [account EXCEPT !.avatarPublicId = avatarReqs[slot].key,
                               !.avatarUpdatedAt = <<avatarDay>>]
  /\ avatarUpdates' = Append(avatarUpdates, avatarDay)
  /\ avatarReqs' = [avatarReqs EXCEPT ![slot].pc = "done", ![slot].status = 200]
  /\ UNCHANGED <<objects, deleteCalls, avatarRequests, avatarDay>>
  /\ UNCHANGED exceptAccountVars

\* DELETE /auth/delete-account: User.findById and bcrypt.compare answer; a wrong
\* password is refused with 400 (auth.js 342-363).
DeleteAccountFind(slot, isMatch) ==
  /\ AccountArrives(slot)
  /\ avatarReqs' = [avatarReqs EXCEPT ![slot] =
                      IF isMatch
                        THEN AccountRequest("delete-account", "save", 0, account, 0)
                        ELSE AccountRequest("delete-account", "done", 400, account, 0)]
  /\ UNCHANGED <<account, objects, deleteCalls, avatarUpdates, avatarDay>>
  /\ UNCHANGED exceptAccountVars

\* Lines 364-394: the loaded document is anonymised, its avatar fields set to
\* null, and saved; then deleteUserAvatar is called if user.avatarPublicId, read
\* from that same document, is set.
DeleteAccountSave(slot) ==
  /\ avatarReqs[slot].pc = "save"
  /\ \E user \in {[avatarReqs[slot].user EXCEPT !.avatarPublicId = 0,
                                                !.avatarUpdatedAt = NoDate,
                                                !.isActive = FALSE]} :
       /\ account' = user
       /\ IF user.avatarPublicId # 0
            THEN /\ deleteCalls' = deleteCalls \cup {user.avatarPublicId}
                 /\ objects' = objects \ {user.avatarPublicId}
            ELSE UNCHANGED <<deleteCalls, objects>>
  /\ avatarReqs' = [avatarReqs EXCEPT ![slot].pc = "done", ![slot].status = 200]
  /\ UNCHANGED <<avatarUpdates, avatarRequests, avatarDay>>
  /\ UNCHANGED exceptAccountVars

\* Time passes.
AccountTick(days) ==
  /\ avatarDay + days <= MaxAvatarDays
  /\ avatarDay' = avatarDay + days
  /\ UNCHANGED <<account, objects, deleteCalls, avatarUpdates, avatarReqs, avatarRequests>>
  /\ UNCHANGED exceptAccountVars

(***************************************************************************)
(* The specifications.                                                     *)
(***************************************************************************)
RatingsIdle ==
  /\ ratingOf = [u \in Users |-> 0]
  /\ totalRatings = 0
  /\ averageRating = 0
  /\ ratingRequests = 0

ScoreIdle == scored = NoScore

BookmarksIdle ==
  /\ bookmarks = [pair \in BookmarkPairs |-> 0]
  /\ bookmarkCount = [mangaId \in Titles |-> 0]
  /\ bookmarkReqs = [slot \in BookmarkSlots |-> IdleRequest]
  /\ bookmarkRequests = 0

ViewsIdle ==
  /\ views = 0
  /\ viewReqs = [slot \in ViewSlots |-> IdleView]
  /\ viewRequests = 0

ChaptersIdle ==
  /\ mangaStored = TRUE
  /\ chapters = {}
  /\ totalChapters = 0
  /\ titleLastUpdated = 0
  /\ chapterReqs = [slot \in ChapterSlots |-> IdleChapterRequest]
  /\ chapterRequests = 0

FaultsIdle == ratingFaults = {}

FilterIdle == built = NoFilter /\ testResp = NoTestResponse

RepeatIdle == repeat = NoRepeat

LoggerIdle ==
  /\ logClock = LogStart
  /\ logCounts = <<>>
  /\ letThrough = <<>>
  /\ lastLog = NoLog
  /\ logSteps = 0

RatingRaceIdle == ratingReqs = [slot \in RatingSlots |-> IdleRatingRequest]

OtpIdle ==
  /\ otpRecord = NewOtp
  /\ otpReqs = [slot \in OtpSlots |-> IdleOtpRequest]
  /\ otpRequests = 0
  /\ otpAccepted = 0

ReactionsIdle ==
  /\ reactionPaths = TRUE
  /\ comment = [reactionCounts |-> NoCounts, userReactions |-> <<>>]
  /\ lastReaction = NoReaction
  /\ reactionRequests = 0

AccountIdle ==
  /\ account = NewAccount
  /\ objects = {}
  /\ deleteCalls = {}
  /\ avatarUpdates = <<>>
  /\ avatarReqs = [slot \in AvatarSlots |-> IdleAccountRequest]
  /\ avatarRequests = 0
  /\ avatarDay = 0

ServicesIdle ==
  RepeatIdle /\ LoggerIdle /\ RatingRaceIdle /\ OtpIdle /\ ReactionsIdle /\ AccountIdle

LibraryIdle ==
  BookmarksIdle /\ ViewsIdle /\ ChaptersIdle /\ FaultsIdle /\ FilterIdle /\ ServicesIdle

SearchIdle ==
  /\ corpus = <<>>
  /\ now = 0
  /\ resp = NoResponse
  /\ session = NoSession

InitRatings == RatingsIdle /\ ScoreIdle /\ SearchIdle /\ LibraryIdle

NextRatings ==
  \/ \E u \in Users, rating \in RatingInputs : PostRating(u, rating)
  \/ \E u \in Users : DeleteRating(u)

SpecRatings == InitRatings /\ [][NextRatings]_vars

InitScore == RatingsIdle /\ ScoreIdle /\ SearchIdle /\ LibraryIdle

NextScore ==
  \E manga \in ScoredDocs, searchQuery \in SearchStrings, clock \in Clock :
    Score(manga, searchQuery, clock)

SpecScore == InitScore /\ [][NextScore]_vars

InitSearch ==
  /\ RatingsIdle /\ ScoreIdle /\ LibraryIdle
  /\ corpus \in SearchCatalogs \cup BulkCatalogs
  /\ now \in Clock
  /\ resp = NoResponse
  /\ session = NoSession

NextSearch ==
  \/ \E q \in QueryInputs, search \in {NoParam, QueryOnePad}, page \in PageInputs,
        limit \in LimitInputs, failing \in SUBSET (1..2) :
       SearchManga(q, search, page, limit, failing)
  \/ \E search \in QueryInputs, genre \in GenreInputs, status \in StatusInputs,
        failing \in SUBSET (1..3) :
       ListManga(search, genre, status, failing)
  \/ TakeResponse

SpecSearch == InitSearch /\ [][NextSearch]_vars

InitPaging ==
  /\ RatingsIdle /\ ScoreIdle /\ LibraryIdle
  /\ corpus \in SmallCatalogs
  /\ now = 0
  /\ resp = NoResponse
  /\ session = NoSession

NextPaging ==
  \/ \E q \in {QueryOne, QueryOneShot}, limit \in {<<1>>, <<2>>}, page \in 1..MaxPage :
       PagedSearch(q, limit, page)
  \/ EndSession
  \/ Tick

SpecPaging == InitPaging /\ [][NextPaging]_vars

InitBookmarks == RatingsIdle /\ ScoreIdle /\ SearchIdle /\ LibraryIdle

NextBookmarks ==
  \/ \E slot \in BookmarkSlots, userId \in Users, mangaId \in Titles :
       PostBookmark(slot, userId, mangaId)
  \/ \E slot \in BookmarkSlots : PostBookmarkSave(slot)
  \/ \E slot \in BookmarkSlots : PostBookmarkInc(slot)
  \/ \E slot \in BookmarkSlots, userId \in Users, mangaId \in Titles :
       DeleteBookmark(slot, userId, mangaId)
  \/ \E slot \in BookmarkSlots : DeleteBookmarkDec(slot)

SpecBookmarks == InitBookmarks /\ [][NextBookmarks]_vars

InitViews == RatingsIdle /\ ScoreIdle /\ SearchIdle /\ LibraryIdle

NextViews ==
  \/ \E slot \in ViewSlots, endpoint \in ViewEndpoints, skipIncrement \in SkipInputs :
       GetManga(slot, endpoint, skipIncrement)
  \/ \E slot \in ViewSlots : GetMangaSave(slot)

SpecViews == InitViews /\ [][NextViews]_vars

InitChapters == RatingsIdle /\ ScoreIdle /\ SearchIdle /\ LibraryIdle

NextChapters ==
  \/ \E slot \in ChapterSlots, chapter \in ChapterNumbers : PostChapter(slot, chapter)
  \/ \E slot \in ChapterSlots : PostChapterInc(slot)
  \/ \E slot \in ChapterSlots, chapter \in ChapterNumbers : DeleteChapter(slot, chapter)
  \/ \E slot \in ChapterSlots : DeleteChapterDec(slot)
  \/ \E slot \in ChapterSlots : DeleteChapterRemove(slot)
  \/ \E slot \in ChapterSlots : DeleteManga(slot)
  \/ \E slot \in ChapterSlots : DeleteMangaCascade(slot)

SpecChapters == InitChapters /\ [][NextChapters]_vars

InitRatingFaults == RatingsIdle /\ ScoreIdle /\ SearchIdle /\ LibraryIdle

NextRatingFaults ==
  \/ \E u \in Users, rating \in RatingInputs :
       ratingRequests < MaxFaultyRatingRequests /\ PostRating(u, rating)
  \/ \E u \in Users :
       ratingRequests < MaxFaultyRatingRequests /\ DeleteRating(u)
  \/ \E u \in Users, rating \in RatingInputs : PostRatingStatsFail(u, rating)
  \/ \E u \in Users : DeleteRatingStatsFail(u)

SpecRatingFaults == InitRatingFaults /\ [][NextRatingFaults]_vars

InitFilter ==
  /\ RatingsIdle /\ ScoreIdle /\ LibraryIdle
  /\ corpus = LiteralCatalog
  /\ now = 0
  /\ resp = NoResponse
  /\ session = NoSession

NextFilter ==
  \/ \E search \in FilterInputs : BuildFilter(search)
  \/ \E q \in TestInputs : SearchTest(q)

SpecFilter == InitFilter /\ [][NextFilter]_vars

\* GET /manga/search with every integer limit from below 1 to above 50, and without one.
MaxBeyond == 2
WideLimitInputs == {<<>>} \cup {<<limit>> : limit \in (0 - MaxBeyond)..(50 + MaxBeyond)}

InitLimits ==
  /\ RatingsIdle /\ ScoreIdle /\ LibraryIdle
  /\ corpus \in SearchCatalogs
  /\ now = 0
  /\ resp = NoResponse
  /\ session = NoSession

NextLimits ==
  \/ \E q \in {QueryOne, QueryBlank}, page \in {<<>>, <<2>>}, limit \in WideLimitInputs :
       SearchManga(q, NoParam, page, limit, {})
  \/ TakeResponse

SpecLimits == InitLimits /\ [][NextLimits]_vars

\* GET /manga/search sent twice, the clock advancing in between.
InitRepeat ==
  /\ RatingsIdle /\ ScoreIdle /\ LibraryIdle
  /\ corpus \in SmallCatalogs
  /\ now = 0
  /\ resp = NoResponse
  /\ session = NoSession

NextRepeat ==
  \/ \E q \in {QueryOne, QueryOneShot}, page \in {<<>>, <<2>>}, limit \in {<<1>>, <<2>>} :
       SearchFirst(q, page, limit)
  \/ SearchAgain
  \/ Tick

SpecRepeat == InitRepeat /\ [][NextRepeat]_vars

\* The logger under single calls, loops of calls and sustained load.
InitLogger == RatingsIdle /\ ScoreIdle /\ SearchIdle /\ LibraryIdle

NextLogger ==
  \/ \E level \in LogLevels : Log(level)
  \/ \E n \in {maxLogsPerSecond - 1, 2 * maxLogsPerSecond} : LogLoop(n)
  \/ LogSustained(maxLogsPerMinute \div maxLogsPerSecond - 1)
  \/ \E seconds \in {1, 30} : LogTick(seconds)

SpecLogger == InitLogger /\ [][NextLogger]_vars

\* POST /ratings requests running concurrently.
InitRatingRace == RatingsIdle /\ ScoreIdle /\ SearchIdle /\ LibraryIdle

NextRatingRace ==
  \/ \E slot \in RatingSlots, userId \in RacingUsers, rating \in RacingRatings :
       PostRatingFind(slot, userId, rating)
  \/ \E slot \in RatingSlots : PostRatingRecord(slot)
  \/ \E slot \in RatingSlots : PostRatingLoad(slot)
  \/ \E slot \in RatingSlots : PostRatingStats(slot)

SpecRatingRace == InitRatingRace /\ [][NextRatingRace]_vars

\* Requests that verify one OTP, running concurrently.
InitOtp == RatingsIdle /\ ScoreIdle /\ SearchIdle /\ LibraryIdle

NextOtp ==
  \/ \E slot \in OtpSlots, endpoint \in OtpEndpoints : VerifyOtpFind(slot, endpoint)
  \/ \E slot \in OtpSlots : VerifyOtpSave(slot)
  \/ OtpExpires

SpecOtp == InitOtp /\ [][NextOtp]_vars

\* Reactions to one comment, one request at a time, under either schema.
InitReactions ==
  /\ RatingsIdle /\ ScoreIdle /\ SearchIdle
  /\ BookmarksIdle /\ ViewsIdle /\ ChaptersIdle /\ FaultsIdle /\ FilterIdle
  /\ RepeatIdle /\ LoggerIdle /\ RatingRaceIdle /\ OtpIdle /\ AccountIdle
  /\ reactionPaths \in BOOLEAN
  /\ comment \in FreshComments
  /\ lastReaction = NoReaction
  /\ reactionRequests = 0

NextReactions ==
  \E userId \in Users, reactionType \in ReactionInputs : PostReaction(userId, reactionType)

SpecReactions == InitReactions /\ [][NextReactions]_vars

\* The avatar uploads and the deletion of one account, running concurrently.
InitAccount == RatingsIdle /\ ScoreIdle /\ SearchIdle /\ LibraryIdle

NextAccount ==
  \/ \E slot \in AvatarSlots : UploadAvatarFind(slot)
  \/ \E slot \in AvatarSlots : UploadAvatarDeleteOld(slot)
  \/ \E slot \in AvatarSlots : UploadAvatarPut(slot)
  \/ \E slot \in AvatarSlots : UploadAvatarSave(slot)
  \/ \E slot \in AvatarSlots, isMatch \in BOOLEAN : DeleteAccountFind(slot, isMatch)
  \/ \E slot \in AvatarSlots : DeleteAccountSave(slot)
  \/ \E days \in {1, AvatarCooldownDays} : AccountTick(days)

SpecAccount == InitAccount /\ [][NextAccount]_vars

(***************************************************************************)
(* Claims about the rating aggregate.                                      *)
(***************************************************************************)
RatedUsers == {u \in Users : ratingOf[u] # 0}

RECURSIVE SumRatings(_)
SumRatings(S) ==
  IF S = {} THEN 0
  ELSE LET u == CHOOSE v \in S : TRUE IN ratingOf[u] + SumRatings(S \ {u})

\* averageRating (tenths) is a nearest tenth of the mean of the stored ratings
IsRoundedMean(avg, S) ==
  IF S = {} THEN avg = 0
  ELSE LET d == avg * Cardinality(S) - 10 * SumRatings(S)
       IN  2 * d <= Cardinality(S) /\ -2 * d <= Cardinality(S)

\* C1: after any sequence of rating submissions and deletions executed one at a
\* time on a title that starts with no ratings, totalRatings equals the number of
\* stored Rating records and averageRating equals their mean rounded to one
\* decimal (0 when there are none).
C1_RatingAggregateMatchesRecords ==
  /\ totalRatings = Cardinality(RatedUsers)
  /\ IsRoundedMean(averageRating, RatedUsers)

(***************************************************************************)
(* Claims about GET /manga/search and GET /manga?search=.                  *)
(***************************************************************************)
SearchServed == resp.endpoint = "search"
SearchSucceeded == SearchServed /\ resp.status = 200
ListServed == resp.endpoint = "list"

\* the records of the corpus that match the candidate filter of term
TrueMatches(term) ==
  {i \in 1..Len(corpus) : prioritizedOrTable[TextOf(corpus[i])][term]}

\* the records of the corpus that match the minimal filter of term
MinimalMatches(term) ==
  {i \in 1..Len(corpus) : simpleOrTable[TextOf(corpus[i])][term]}

ItemsOf(seq) == {seq[k] : k \in 1..Len(seq)}

ScoreAt(i, term, clock) == scoreTable[corpus[i]][term][clock]

\* C2 as stated: totalPages of a GET /manga/search response is ceil(T / limit),
\* T the true number of records matching the candidate filter.
C2_TotalPagesOfTrueCount ==
  SearchSucceeded =>
    resp.totalPages = ceilDiv(Cardinality(TrueMatches(resp.term)), resp.itemsPerPage)

\* C2 amended: totalPages is ceil(S / limit), S the number of records in the
\* scored pool, which is T capped at the pool size; T itself is totalItems.
C2_TotalPagesOfScoredPool ==
  SearchSucceeded =>
    \E T \in {Cardinality(TrueMatches(resp.term))} :
      /\ resp.totalItems = T
      /\ resp.totalItemsScored = Min(T, MAX_POOL(resp.itemsPerPage))
      /\ resp.totalPages = ceilDiv(resp.totalItemsScored, resp.itemsPerPage)

C2_PoolSmallerThanMatches ==
  /\ SearchSucceeded
  /\ resp.totalItems > resp.totalItemsScored
  /\ resp.totalPages * resp.itemsPerPage < resp.totalItems

\* C3: a GET /manga/search success response carries the note exactly when the
\* true number of matches exceeds the number of scored candidates, so matches
\* beyond the pool are never left out without it.
C3_NoteIffPoolTruncated ==
  SearchSucceeded =>
    \E T \in {Cardinality(TrueMatches(resp.term))} :
      /\ resp.totalItemsScored = resp.calls[1].returned
      /\ resp.note <=> (T > resp.totalItemsScored)
      /\ T > MAX_POOL(resp.itemsPerPage) => resp.note

C3_NoteSet == SearchSucceeded /\ resp.note /\ resp.data # <<>>

(***************************************************************************)
(* Claims about paging (SpecPaging).                                       *)
(***************************************************************************)
SeenPages == {p \in DOMAIN session.pages : session.pages[p] # <<>>}
PageSeen(p) == session.pages[p][1]

\* the number of candidates that come before x in the stable score-descending
\* order of the pool at time clock
RankOf(x, pool, term, clock) ==
  Cardinality({y \in pool : \/ ScoreAt(y, term, clock) > ScoreAt(x, term, clock)
                            \/ /\ ScoreAt(y, term, clock) = ScoreAt(x, term, clock)
                               /\ y < x})

\* The pages seen are pairwise disjoint, and page p holds exactly the elements
\* (p-1)*L .. (p-1)*L + L - 1 of the score-descending order of the pool at time clock.
PagesAreSlicesOfOrderAt(clock) ==
  \E L \in {session.limit[1]}, pool \in {TrueMatches(session.q)} :
    /\ \A p, r \in SeenPages : p # r => ItemsOf(PageSeen(p)) \cap ItemsOf(PageSeen(r)) = {}
    /\ \A p \in SeenPages :
         /\ Len(PageSeen(p)) = Max(0, Min(L, Cardinality(pool) - (p - 1) * L))
         /\ \A k \in 1..Len(PageSeen(p)) :
              /\ PageSeen(p)[k] \in pool
              /\ RankOf(PageSeen(p)[k], pool, session.q, clock) = (p - 1) * L + k - 1

\* C4 as stated: for a fixed corpus, query and limit the pages are pairwise
\* disjoint and are the contiguous slices of one and the same score-descending
\* order of the pool.
C4_PagesAreSlicesOfOneOrder ==
  session # NoSession => \E clock \in Clock : PagesAreSlicesOfOrderAt(clock)

\* C4 amended: the same, for pages served while no record's update passes the
\* age of RecentDays days (the score of a record depends on the time of the request).
C4_PagesAreSlicesWhileNoRecordAges ==
  (session # NoSession /\ ~session.aged) => PagesAreSlicesOfOrderAt(now)

C4_TwoPagesSeen ==
  /\ session # NoSession /\ ~session.aged
  /\ \E p, r \in SeenPages : p < r /\ PageSeen(p) # <<>> /\ PageSeen(r) # <<>>

(***************************************************************************)
(* Claims about the ranking (SpecSearch).                                  *)
(***************************************************************************)
\* per title text and search string: the title equals the search string, an
\* alternative title does (both case-insensitively)
titleIsTable ==
  [x \in CatalogTexts |->
     [search \in SearchStrings |-> toLowerCase(x.title) = toLowerCase(search)]]

altIsTable ==
  [x \in CatalogTexts |->
     [search \in SearchStrings |->
        \E k \in 1..Len(x.alternativeTitles) :
          toLowerCase(x.alternativeTitles[k]) = toLowerCase(search)]]

\* the number of significant tokens of a search string
tokenCount ==
  [search \in SearchStrings |->
     Len(SelectSeq(splitWords(toLowerCase(search)), IsSignificantWord))]

TitleIs(i, term) == titleIsTable[TextOf(corpus[i])][term]
AltIs(i, term) == altIsTable[TextOf(corpus[i])][term]

\* record e is the one record whose title equals term; every other matching
\* record merely contains it
OnlyExactTitle(e, term) ==
  /\ TitleIs(e, term)
  /\ \A o \in TrueMatches(term) \ {e} : ~TitleIs(o, term) /\ ~AltIs(o, term)

\* record e is one of the first n matching records in store order
AmongFirstMatches(e, term, n) ==
  Cardinality({i \in TrueMatches(term) : i <= e}) <= n

\* C5 as stated: when one record's title equals the query and every other
\* matching record only contains it, that record is the first item of page 1,
\* whatever the size of the corpus.
C5_ExactTitleFirst ==
  (SearchSucceeded /\ resp.page = 1) =>
    \A e \in 1..Len(corpus) :
      OnlyExactTitle(e, resp.term) => (resp.data # <<>> /\ resp.data[1] = e)

\* C5 amended: the same, provided the exact-title record is in the candidate
\* pool (among the first MAX_POOL matching records of the store) and the query
\* has at most three significant tokens.
C5_ExactTitleFirstInPool ==
  (SearchSucceeded /\ resp.page = 1 /\ tokenCount[resp.term] <= 3) =>
    \A e \in 1..Len(corpus) :
      (/\ OnlyExactTitle(e, resp.term)
       /\ AmongFirstMatches(e, resp.term, MAX_POOL(resp.itemsPerPage)))
        => (resp.data # <<>> /\ resp.data[1] = e)

C5_ExactTitleOvertakes ==
  /\ SearchSucceeded /\ resp.page = 1 /\ Len(resp.data) >= 2
  /\ \E e \in 2..Len(corpus) : OnlyExactTitle(e, resp.term) /\ resp.data[1] = e

(***************************************************************************)
(* Claims about the relevance scorer (SpecScore).                          *)
(***************************************************************************)
ScoredTitle == toLowerCase(scored.manga.title)
ScoredAlts ==
  [k \in 1..Len(scored.manga.alternativeTitles) |->
     toLowerCase(scored.manga.alternativeTitles[k])]
ScoredQuery == toLowerCase(scored.searchQuery)
ScoredTokens == SelectSeq(splitWords(ScoredQuery), IsSignificantWord)

SomeAltIs == \E k \in 1..Len(ScoredAlts) : ScoredAlts[k] = ScoredQuery
SomeAltStarts == \E k \in 1..Len(ScoredAlts) : startsWith(ScoredAlts[k], ScoredQuery)
SomeAltIncludes == \E k \in 1..Len(ScoredAlts) : includes(ScoredAlts[k], ScoredQuery)
TitleIsShort == Len(ScoredTitle) <= Len(ScoredQuery) + ShortTitleSlack
UpdatedRecently ==
  /\ scored.manga.lastUpdated # <<>>
  /\ scored.clock - scored.manga.lastUpdated[1] <= RecentDays

\* token is a whole word of s: it occurs in s between two \b positions
IsWholeWordOf(token, s) == regexTest(wordBoundaryRegex(token), s)
TokenAtStart(k) == startsWith(ScoredTitle, ScoredTokens[k])
TokenInTitle(k) == IsWholeWordOf(ScoredTokens[k], ScoredTitle)
TokenInAlt(k) == \E j \in 1..Len(ScoredAlts) : IsWholeWordOf(ScoredTokens[k], ScoredAlts[j])

\* the rows of the score table whose condition holds, each with its points
RowsThatHold ==
  {r \in { <<<<"title is", 0>>, ScoredTitle = ScoredQuery, 1000>>,
           <<<<"alt is", 0>>, SomeAltIs, 800>>,
           <<<<"title starts", 0>>, startsWith(ScoredTitle, ScoredQuery), 500>>,
           <<<<"alt starts", 0>>, SomeAltStarts, 400>>,
           <<<<"title includes", 0>>, includes(ScoredTitle, ScoredQuery), 300>>,
           <<<<"alt includes", 0>>, SomeAltIncludes, 200>>,
           <<<<"short title", 0>>, TitleIsShort, 20>>,
           <<<<"recent", 0>>, UpdatedRecently, 10>> }
         \cup {<<<<"token at start", k>>, TokenAtStart(k), 150>> : k \in 1..Len(ScoredTokens)}
         \cup {<<<<"token in title", k>>, TokenInTitle(k), 75>> : k \in 1..Len(ScoredTokens)}
         \cup {<<<<"token in alt", k>>, TokenInAlt(k), 40>> : k \in 1..Len(ScoredTokens)}
     : r[2]}

RECURSIVE SumOfPoints(_)
SumOfPoints(rows) ==
  IF rows = {} THEN 0
  ELSE LET r == CHOOSE x \in rows : TRUE IN r[3] + SumOfPoints(rows \ {r})

\* only the exact-alternative-title row and the recent-update row hold
OnlyAltIsAndRecent ==
  /\ SomeAltIs /\ UpdatedRecently
  /\ ScoredTitle # ScoredQuery
  /\ ~startsWith(ScoredTitle, ScoredQuery) /\ ~includes(ScoredTitle, ScoredQuery)
  /\ ~TitleIsShort
  /\ \A k \in 1..Len(ScoredTokens) :
       ~TokenAtStart(k) /\ ~TokenInTitle(k) /\ ~TokenInAlt(k)

\* C6 as stated: the score is the sum of the points of the rows that hold, and a
\* record matching only the exact-alternative-title row and the recent-update
\* row scores 810.
C6_SumOfRowsAnd810 ==
  scored.called =>
    /\ scored.score = SumOfPoints(RowsThatHold)
    /\ OnlyAltIsAndRecent => scored.score = 810

\* C6 amended: the score is the sum of the points of the rows that hold; a
\* record with an alternative title equal to the query also meets the rows
\* "alternative title starts with" and "alternative title contains", so with a
\* recent update it scores at least 800 + 400 + 200 + 10 = 1410.
C6_SumOfRows ==
  scored.called =>
    /\ scored.score = SumOfPoints(RowsThatHold)
    /\ (SomeAltIs /\ UpdatedRecently) => scored.score >= 1410

C6_AltIsAndRecentScored ==
  scored.called /\ OnlyAltIsAndRecent /\ scored.score = 1410

\* C7: a significant query token that the title and the alternative titles
\* contain only inside a longer word earns none of the per-token rows, while a
\* token that stands as a whole word at the start of the title earns +150 and +75.
C7_TokenRowsUseWordBoundary ==
  scored.called =>
    \A k \in 1..Len(ScoredTokens) :
      /\ (~TokenInTitle(k) /\ ~TokenInAlt(k))
           => wordPoints(ScoredTitle, ScoredAlts, ScoredTokens[k]) = 0
      /\ (TokenInTitle(k) /\ TokenAtStart(k))
           => wordPoints(ScoredTitle, ScoredAlts, ScoredTokens[k]) >= 150 + 75

(***************************************************************************)
(* Claims about the fallback and about failures (SpecSearch).              *)
(***************************************************************************)
Served == resp.endpoint # "none"

\* the positions of the store calls of the request that used the minimal filter
SimpleFinds == {k \in 1..Len(resp.calls) : resp.calls[k].filter = "simple"}

\* the first find of the request succeeded and returned nothing
NoCandidates ==
  /\ resp.calls # <<>>
  /\ resp.calls[1].op = "find" /\ resp.calls[1].ok /\ resp.calls[1].returned = 0

\* the first n records of a set of records, in store order
FirstOf(records, n) == {i \in records : Cardinality({j \in records : j <= i}) <= n}

\* data lists the five best of the first ten records matching the minimal filter
IsTopOfMinimalMatches(data, term) ==
  \E found \in {FirstOf(MinimalMatches(term), 10)} :
    /\ Len(data) = Min(5, Cardinality(found))
    /\ \A k \in 1..Len(data) : data[k] \in found
    /\ \A k \in 1..(Len(data) - 1) :
         ScoreAt(data[k], term, now) >= ScoreAt(data[k + 1], term, now)
    /\ \A i \in found \ ItemsOf(data) :
         \A k \in 1..Len(data) : ScoreAt(data[k], term, now) >= ScoreAt(i, term, now)

C9_StoreFailureIsAnError ==
  Served =>
    \A k \in 1..Len(resp.calls) :
      ~resp.calls[k].ok => (resp.status = 500 /\ k = Len(resp.calls))

\* q is missing, empty or made of white space only
IsBlankParam(q) == q = NoParam \/ \A i \in 1..Len(q) : IsSpace(q[i])
RequestedQuery == IF resp.request[1] # NoParam /\ resp.request[1] # <<>>
                    THEN resp.request[1] ELSE resp.request[2]
RequestedPage == resp.request[3]
PageBelowOne == RequestedPage # <<>> /\ RequestedPage[1] < 1

\* C10 as stated: a GET /manga/search request with a missing or blank query, or
\* with a page number below 1, is rejected with 400 before any store query.
C10_BlankQueryOrLowPageRejected ==
  (SearchServed /\ (IsBlankParam(RequestedQuery) \/ PageBelowOne)) =>
    (resp.status = 400 /\ resp.calls = <<>>)

\* C10 amended: a request with a missing or blank query is rejected with 400
\* before any store query, and only such a request is; a page number below 1 is
\* served as page 1.
C10_BlankQueryRejectedLowPageServedAsFirst ==
  SearchServed =>
    /\ IsBlankParam(RequestedQuery) <=> resp.status = 400
    /\ resp.status = 400 => resp.calls = <<>>
    /\ (PageBelowOne /\ resp.status = 200) => resp.page = 1

C10_BlankQueryRejected ==
  /\ SearchServed /\ resp.status = 400 /\ resp.calls = <<>>
  /\ resp.request[1] # NoParam /\ IsBlankParam(resp.request[1])

(***************************************************************************)
(* Claims about bookmarks.                                                 *)
(***************************************************************************)
BookmarksQuiescent == \A slot \in BookmarkSlots : IsFree(bookmarkReqs[slot])
RecordsOfTitle(mangaId) ==
  LET RECURSIVE Sum(_)
      Sum(S) == IF S = {} THEN 0
                ELSE LET u == CHOOSE x \in S : TRUE
                     IN bookmarks[<<u, mangaId>>] + Sum(S \ {u})
  IN Sum(Users)

\* A step of a POST request in `slot` taken while its pair has a record.
PostStepOnBookmarkedPair(slot) ==
  /\ bookmarkReqs[slot].kind = "POST"
  /\ bookmarkReqs[slot].pc = "save"
  /\ bookmarks[PairOf(bookmarkReqs[slot])] > 0
  /\ bookmarkReqs'[slot] # bookmarkReqs[slot]

\* A POST request arriving in `slot` for a pair that has a record.
PostArrivesOnBookmarkedPair(slot) ==
  /\ IsFree(bookmarkReqs[slot])
  /\ bookmarkReqs'[slot] # bookmarkReqs[slot]
  /\ bookmarkReqs'[slot].kind = "POST"
  /\ bookmarks[PairOf(bookmarkReqs'[slot])] > 0

AtMostOneBookmarkPerPair == \A pair \in BookmarkPairs : bookmarks[pair] <= 1

DuplicatePostRejected ==
  \A slot \in BookmarkSlots :
    PostStepOnBookmarkedPair(slot) \/ PostArrivesOnBookmarkedPair(slot)
      => /\ bookmarkReqs'[slot].pc = "done"
         /\ bookmarkReqs'[slot].status \in {400, 500}
         /\ bookmarks' = bookmarks

\* C11: under every interleaving of the steps of POST /bookmarks and DELETE /bookmarks/:mangaId
\* requests there is at most one Bookmark record per (userId, mangaId), and a POST that finds
\* its pair bookmarked, on arrival or at its save, is answered with an error and adds no record.
C11_AtMostOneBookmarkPerPair ==
  [](AtMostOneBookmarkPerPair) /\ [][DuplicatePostRejected]_vars

\* Two POSTs of one user for one title were in flight together: one saved, the other was
\* refused by the unique index.
C11_ConcurrentDuplicateRefused ==
  \E s1, s2 \in BookmarkSlots :
    /\ s1 # s2
    /\ bookmarkReqs[s1].kind = "POST" /\ bookmarkReqs[s2].kind = "POST"
    /\ PairOf(bookmarkReqs[s1]) = PairOf(bookmarkReqs[s2])
    /\ bookmarkReqs[s1].pc \in {"inc", "done"} /\ bookmarkReqs[s1].status \in {0, 201}
    /\ bookmarkReqs[s2].status = 500
    /\ bookmarks[PairOf(bookmarkReqs[s1])] = 1

RejectedBookmarkStep ==
  \E slot \in BookmarkSlots :
    /\ bookmarkReqs'[slot] # bookmarkReqs[slot]
    /\ bookmarkReqs'[slot].status \in {400, 404, 500}

\* C12: whenever no bookmark request is in flight the bookmarkCount of every title equals the
\* number of its Bookmark records; a rejected request leaves bookmarkCount unchanged; and
\* bookmarkCount is never negative.
C12_CountMatchesRecordsNeverNegative ==
  /\ [](BookmarksQuiescent => \A mangaId \in Titles : bookmarkCount[mangaId] = RecordsOfTitle(mangaId))
  /\ [](\A mangaId \in Titles : bookmarkCount[mangaId] >= 0)
  /\ [][RejectedBookmarkStep => bookmarkCount' = bookmarkCount]_vars


(***************************************************************************)
(* Claims about the view counter.                                          *)
(***************************************************************************)
\* C13: under every interleaving of detail-view requests the stored stats.views never
\* decreases from one state to the next.
C13_ViewsNeverDecrease == [][views' >= views]_vars

(***************************************************************************)
(* Claims about chapters and title deletion.                               *)
(***************************************************************************)
\* C14: in no reachable state, the states between the steps of DELETE /manga/:id and those
\* under concurrent chapter creation included, is there a Chapter record of the title after
\* the title's record has been deleted.
C14_NoChapterOfDeletedTitle == ~mangaStored => chapters = {}

ChapterRequestSucceeded(slot) ==
  /\ chapterReqs[slot].kind \in {"POST", "DELETE"}
  /\ chapterReqs[slot].pc = "done"
  /\ chapterReqs[slot].status \in {200, 201}

\* C15: when a POST /chapters or DELETE /chapters/:id has completed successfully, the title's
\* lastUpdated is later than it was when the request arrived.
C15_ChapterChangeAdvancesLastUpdated ==
  \A slot \in ChapterSlots : ChapterRequestSucceeded(slot) => titleLastUpdated > chapterReqs[slot].before

(***************************************************************************)
(* Claims about rating updates and the rating round trip.                  *)
(***************************************************************************)
\* A step in which user u, who has a rating, posts another value.
RatingReplaced(u) ==
  /\ ratingOf[u] # 0
  /\ ratingOf'[u] # 0
  /\ ratingOf'[u] # ratingOf[u]

\* C16 as claimed: a POST /ratings by a user who has a rating replaces the value and leaves
\* totalRatings unchanged, whatever the stored aggregate, totalRatings = 0 included.
C16_UpdateKeepsTotalRatings ==
  [][\A u \in Users : RatingReplaced(u) =>
        /\ \A v \in Users \ {u} : ratingOf'[v] = ratingOf[v]
        /\ totalRatings' = totalRatings]_vars

\* C16 as the code has it: a POST /ratings by a user who has a rating replaces the value and
\* touches no other record; it leaves totalRatings unchanged when the stored totalRatings is
\* positive; when the stored totalRatings is 0 it sets totalRatings to 1 and averageRating to
\* the new value, unless the update of the stats throws, which leaves both as they were.
C16_UpdateKeepsPositiveTotalRatings ==
  [][\A u \in Users : RatingReplaced(u) =>
        /\ \A v \in Users \ {u} : ratingOf'[v] = ratingOf[v]
        /\ totalRatings > 0 => totalRatings' = totalRatings
        /\ totalRatings = 0 =>
             \/ totalRatings' = 1 /\ averageRating' = 10 * ratingOf'[u]
             \/ UNCHANGED <<totalRatings, averageRating>>]_vars

\* The first request wrote a record while its stats update threw; the second request, whose
\* stats update ran, was the same user's new value on the stored totalRatings = 0.
C16_UpdatedOnZeroTotal ==
  /\ ratingFaults = {1}
  /\ ratingRequests = 2
  /\ Cardinality(RatedUsers) = 1
  /\ totalRatings = 1
  /\ \A u \in RatedUsers : averageRating = 10 * ratingOf[u]

\* The aggregate after a new rating by a user without one, followed by that user's deletion.
RoundTrip(rating) ==
  LET added == NewRatingStats(totalRatings, averageRating, rating)
  IN  DeletedRatingStats(added[1], added[2], rating)

RoundTripRestores ==
  ratingRequests + 2 <= MaxRatingRequests /\ RatedUsers # Users
    => \A rating \in 1..5 : RoundTrip(rating) = <<totalRatings, averageRating>>

\* A step in which user u's rating is deleted.
RatingDeleted(u) == ratingOf[u] # 0 /\ ratingOf'[u] = 0

DeletionLeavesAggregateOfRemaining ==
  \A u \in Users : RatingDeleted(u) =>
    (totalRatings = Cardinality(RatedUsers) /\ IsRoundedMean(averageRating, RatedUsers))'

\* C17: in every state, a new rating r in 1..5 by a user who has none followed by that user's
\* deletion gives back the totalRatings and averageRating of the state; and every deletion of
\* a rating leaves totalRatings and averageRating equal to the count and the rounded mean of
\* the ratings that remain.
C17_RatingRoundTrip ==
  [](RoundTripRestores) /\ [][DeletionLeavesAggregateOfRemaining]_vars

(***************************************************************************)
(* Claims about the candidate filter and literal queries.                  *)
(***************************************************************************)
\* the whitespace-separated tokens of the trimmed query, and the significant ones
TokensOf(q) == splitWords(trim(q))
IsSignificantToken(token) == Len(token) >= 3 /\ toLowerCase(token) \notin StopWords
SignificantTokensOf(q) == SelectSeq(TokensOf(q), IsSignificantToken)

IsTokenClause(clause) ==
  Len(clause.regex) >= 4 /\ SubSeq(clause.regex, 1, 2) = <<"\\", "b">>
TokenClausesOf(or) == SelectSeq(or, IsTokenClause)

MostTokensSignificant(q) ==
  Len(TokensOf(q)) >= 2 /\ 10 * Len(SignificantTokensOf(q)) >= 6 * Len(TokensOf(q))

OneClausePairPerSignificantToken(q, or) ==
  LET tokens == SignificantTokensOf(q)
      clauses == TokenClausesOf(or)
  IN  /\ Len(clauses) = 2 * Len(tokens)
      /\ \A i \in 1..Len(tokens) :
           /\ clauses[2 * i - 1] = [field |-> "title", regex |-> wordBoundaryRegex(tokens[i])]
           /\ clauses[2 * i] = [field |-> "alternativeTitles", regex |-> wordBoundaryRegex(tokens[i])]

SixPhraseClauses(q, or) ==
  /\ Len(or) >= 6
  /\ {or[k] : k \in 1..6}
       = {[field |-> f, regex |-> pre \o escapeRegex(q) \o post] :
            f \in {"title", "alternativeTitles"},
            pre \in {<<>>, <<"^">>},
            post \in {<<>>, <<"$">>}}
         \ {[field |-> f, regex |-> escapeRegex(q) \o <<"$">>] : f \in {"title", "alternativeTitles"}}
  /\ Len(TokenClausesOf(SubSeq(or, 1, 6))) = 0

\* C18: the filter built for a query holds word-boundary token clauses exactly when the
\* trimmed query has at least 2 tokens of which at least 60% are significant; then it holds
\* one title clause and one alternativeTitles clause per significant token; and it always
\* holds the six phrase clauses.
C18_TokenClausesIffMostlySignificant ==
  built.called =>
    /\ Len(TokenClausesOf(built.or)) > 0 <=> MostTokensSignificant(built.search)
    /\ Len(TokenClausesOf(built.or)) > 0 => OneClausePairPerSignificantToken(built.search, built.or)
    /\ SixPhraseClauses(built.search, built.or)
    /\ Len(built.or) = 6 + Len(TokenClausesOf(built.or))

\* A filter was built for a query of five tokens of which exactly three are significant.
C18_ThreeOfFiveSignificant ==
  /\ built.called
  /\ Len(TokensOf(built.search)) = 5
  /\ Len(SignificantTokensOf(built.search)) = 3
  /\ Len(TokenClausesOf(built.or)) = 6

\* the texts of a record a clause on `field` looks at
TextsOf(doc, field) ==
  IF field = "title" THEN {doc.title}
  ELSE {doc.alternativeTitles[i] : i \in 1..Len(doc.alternativeTitles)}

\* text equals (k = 1, 2), starts with (k = 3, 4) or contains (k = 5, 6) q, ignoring case
LiterallyMatches(text, q, k) ==
  CASE k \in {1, 2} -> toLowerCase(text) = toLowerCase(q)
    [] k \in {3, 4} -> startsWith(toLowerCase(text), toLowerCase(q))
    [] OTHER        -> includes(toLowerCase(text), toLowerCase(q))

PhraseClausesSelectLiterally ==
  built.called =>
    \A k \in 1..6 : \A i \in built.selects[k] :
      \E text \in TextsOf(corpus[i], built.or[k].field) :
        LiterallyMatches(text, built.search, k)

SearchTestIsLiteral ==
  testResp.called /\ testResp.success =>
    /\ testResp.pattern = escapeRegex(testResp.query)
    /\ \A n \in 1..Len(testResp.results) :
         includes(toLowerCase(corpus[testResp.results[n]].title), toLowerCase(testResp.query))

\* C19: every query is treated as literal text: a phrase clause of the candidate filter
\* selects a record only if its title or an alternative title equals, starts with or contains
\* the query, ignoring case; and GET /manga/search-test, the other search endpoint of the
\* manga router, hands the store the escaped query and returns only titles that contain it.
C19_QueriesAreLiteral == PhraseClausesSelectLiterally /\ SearchTestIsLiteral

(***************************************************************************)
(* Claims about the limit parameter of GET /manga/search.                  *)
(***************************************************************************)
RequestedLimit == resp.request[4]

\* the page size the limit parameter stands for: itself within 1..50, 20 when absent, the
\* nearer of 1 and 50 otherwise
ClampedLimit(limit) ==
  IF limit = <<>> THEN 20
  ELSE IF limit[1] < 1 THEN 1
  ELSE IF limit[1] > 50 THEN 50
  ELSE limit[1]

\* C20: a GET /manga/search request with a query is served whatever its limit, with a page
\* size that is the limit when it is an integer of 1..50, 20 when there is none, and the
\* nearer of 1 and 50 when the integer lies outside 1..50.
C20_LimitClampedToNearestBound ==
  (SearchServed /\ ~IsBlankParam(RequestedQuery)) =>
    /\ resp.status = 200
    /\ resp.itemsPerPage = ClampedLimit(RequestedLimit)

(***************************************************************************)
(* Claims about repeated search requests (SpecRepeat).                     *)
(***************************************************************************)
SentTwice == repeat.first # <<>> /\ repeat.second # <<>>

\* a record stops being recent between the days the two requests were served
AgedBetween ==
  \E i \in 1..Len(corpus) :
    isRecent(corpus[i], repeat.firstDay) # isRecent(corpus[i], repeat.secondDay)

OtherStats == <<bookmarkCount, totalChapters, averageRating, totalRatings>>

\* the request of slot arrives in this step
ViewArrives(slot) ==
  viewRequests' = viewRequests + 1 /\ viewReqs'[slot].pc # viewReqs[slot].pc

\* the request of slot, with nothing else in flight since it arrived, saves in this step
ViewSavedAlone(slot) ==
  viewReqs[slot].pc = "save" /\ viewReqs'[slot].pc = "done" /\ viewReqs[slot].alone

\* a detail view that writes (one without the flag, or with an empty one), alone
\* in flight, raises views by exactly 1 and changes no other stats field
ViewAloneCountsOnce ==
  [][\A slot \in ViewSlots :
       ViewSavedAlone(slot) => views' = views + 1 /\ OtherStats' = OtherStats]_vars

\* C22 as stated: a detail-view request carrying skipIncrement leaves stats.views
\* and every other stored field of the title unchanged, on both endpoints, and a
\* detail view without the flag, executed with no other request in flight, raises
\* stats.views by exactly 1 and changes no other stats field.
C22_SkipFlagLeavesTitleUnchanged ==
  /\ [][\A slot \in ViewSlots :
          (ViewArrives(slot) /\ viewReqs'[slot].skipIncrement # NoParam) =>
            /\ viewReqs'[slot].pc = "done"
            /\ views' = views /\ OtherStats' = OtherStats
            /\ mangaStored' = mangaStored /\ titleLastUpdated' = titleLastUpdated]_vars
  /\ ViewAloneCountsOnce

\* C22 amended: the same, of a request whose skipIncrement has a non-empty value
\* (whatever it is, "false" included); an empty skipIncrement counts as no flag.
C22_NonEmptySkipFlagLeavesTitleUnchanged ==
  /\ [][\A slot \in ViewSlots :
          (/\ ViewArrives(slot)
           /\ viewReqs'[slot].skipIncrement # NoParam
           /\ viewReqs'[slot].skipIncrement # <<>>) =>
            /\ viewReqs'[slot].pc = "done"
            /\ views' = views /\ OtherStats' = OtherStats
            /\ mangaStored' = mangaStored /\ titleLastUpdated' = titleLastUpdated]_vars
  /\ ViewAloneCountsOnce

\* a view with skipIncrement=false was served when the counter was positive, and
\* a view without the flag has been counted with nothing else in flight
C22_SkippedAndCounted ==
  /\ views > 0
  /\ \E slot \in ViewSlots :
       /\ viewReqs[slot].pc = "done"
       /\ viewReqs[slot].skipIncrement = <<"f","a","l","s","e">>
       /\ viewReqs[slot].loaded = views
       /\ viewReqs[slot].endpoint = "slug"
  /\ \E slot \in ViewSlots :
       /\ viewReqs[slot].pc = "done"
       /\ viewReqs[slot].skipIncrement = NoParam
       /\ viewReqs[slot].alone
       /\ views = viewReqs[slot].loaded + 1

(***************************************************************************)
(* Claims about the rate-limited logger (SpecLogger).                      *)
(***************************************************************************)
RECURSIVE SumThrough(_)
SumThrough(seconds) ==
  IF seconds = {} THEN 0
  ELSE LET s == CHOOSE x \in seconds : TRUE
       IN  letThrough[s] + SumThrough(seconds \ {s})

\* the calls let through in the clock minute of second
ThroughInMinuteOf(second) ==
  SumThrough({s \in DOMAIN letThrough : s \div 60 = second \div 60})

\* a single call is made in this step
SingleCall == logSteps' = logSteps + 1 /\ lastLog'.calls = 1

\* C23: the logger lets through at most 100 calls in any one clock second and at
\* most 3000 in any one clock minute, whatever their levels; a refused call
\* consumes no quota; a call is let through whenever fewer than 100 calls have
\* been in its second and fewer than 3000 in its minute, so in the next second
\* calls are accepted again unless the minute's cap is reached.
C23_LoggerKeepsBothCaps ==
  /\ [](\A s \in DOMAIN letThrough :
          /\ letThrough[s] <= 100
          /\ ThroughInMinuteOf(s) <= 3000)
  /\ [][SingleCall =>
          /\ lastLog'.ok <=> /\ CountOf(letThrough, logClock) < 100
                             /\ ThroughInMinuteOf(logClock) < 3000
          /\ ~lastLog'.ok =>
                /\ letThrough' = letThrough
                /\ \A k \in DOMAIN logCounts' : logCounts'[k] = CountOf(logCounts, k)]_vars

\* the minute's cap has been reached, a call in a second with quota left has
\* been refused for it
C23_RefusedByMinuteCap ==
  /\ lastLog.calls = 1 /\ ~lastLog.ok
  /\ CountOf(letThrough, logClock) = 0
  /\ ThroughInMinuteOf(logClock) = 3000

(***************************************************************************)
(* Claims about concurrent rating requests (SpecRatingRace).               *)
(***************************************************************************)
\* two requests have been made, by two different users, and both have completed
TwoUsersRated ==
  /\ ratingRequests = 2
  /\ \E a, b \in RatingSlots :
       /\ ratingReqs[a].pc = "done" /\ ratingReqs[b].pc = "done"
       /\ ratingReqs[a].userId # ratingReqs[b].userId

\* C24: under any interleaving of two POST /ratings requests by two different
\* users for the same title, once both have completed totalRatings equals the
\* number of Rating records and averageRating accounts for both ratings.
C24_NoRatingUpdateLost ==
  TwoUsersRated =>
    /\ totalRatings = Cardinality(RatedUsers)
    /\ IsRoundedMean(averageRating, RatedUsers)

(***************************************************************************)
(* Claims about one-time passwords (SpecOtp).                              *)
(***************************************************************************)
\* C25: for an OTP record at most one verifyOTP call ever returns true, under
\* any interleaving of concurrent calls with the same (email, otp, purpose).
C25_OtpAcceptedAtMostOnce == otpAccepted <= 1

(***************************************************************************)
(* Claims about the range of the rating aggregate (SpecRatings).           *)
(***************************************************************************)
\* C26: in every state reachable by rating create, update and delete requests
\* executed one at a time with values in 1..5, totalRatings is never negative,
\* averageRating is 0 when totalRatings = 0, and averageRating lies in [1, 5]
\* when totalRatings >= 1.
C26_AggregateInRange ==
  /\ totalRatings >= 0
  /\ totalRatings = 0 => averageRating = 0
  /\ totalRatings >= 1 => (10 <= averageRating /\ averageRating <= 50)

(***************************************************************************)
(* Claims about comment reactions (SpecReactions).                         *)
(***************************************************************************)
EntriesOf(userId) ==
  {i \in 1..Len(comment.userReactions) : comment.userReactions[i].userId = userId}

EntriesOfType(type) ==
  {i \in 1..Len(comment.userReactions) : comment.userReactions[i].type = type}

\* reactionCounts[type] of the stored comment, an absent reactionCounts read as 0
StoredCount(type) ==
  IF comment.reactionCounts = NoCounts THEN 0 ELSE comment.reactionCounts[1][type]

\* C27: after any sequence of POST /comments/:id/reactions requests executed one
\* at a time on a comment that starts with no reactions, each user has at most
\* one entry in userReactions, and reactionCounts.likes and
\* reactionCounts.dislikes each equal the number of entries of that type.
C27_CountsMatchUserReactions ==
  /\ \A userId \in Users : Cardinality(EntriesOf(userId)) <= 1
  /\ StoredCount("likes") = Cardinality(EntriesOfType("likes"))
  /\ StoredCount("dislikes") = Cardinality(EntriesOfType("dislikes"))

\* a user has changed a like into a dislike while another user's like is stored
C27_ReactionChanged ==
  /\ lastReaction.outcome = "changed" /\ lastReaction.reactionType = "dislikes"
  /\ StoredCount("likes") = 1 /\ StoredCount("dislikes") = 1
  /\ Len(comment.userReactions) = 2

(***************************************************************************)
(* Claims about the account's avatar (SpecAccount).                        *)
(***************************************************************************)
\* C28: after a successful DELETE /auth/delete-account for a user who had an
\* avatar, deleteUserAvatar has been invoked with the avatarPublicId the user
\* had before the request, and the object is gone from storage.
C28_DeletedAccountAvatarDeleted ==
  \A slot \in AvatarSlots :
    (/\ avatarReqs[slot].kind = "delete-account"
     /\ avatarReqs[slot].status = 200
     /\ avatarReqs[slot].user.avatarPublicId # 0) =>
      /\ avatarReqs[slot].user.avatarPublicId \in deleteCalls
      /\ avatarReqs[slot].user.avatarPublicId \notin objects

\* an upload-avatar request is refused in this step
UploadRefused(slot) ==
  /\ avatarRequests' = avatarRequests + 1
  /\ avatarReqs'[slot] # avatarReqs[slot]
  /\ avatarReqs'[slot].kind = "upload-avatar" /\ avatarReqs'[slot].status = 400

\* C29: two successful avatar updates of the user are at least 7 days apart,
\* under any interleaving of concurrent POST /auth/upload-avatar requests; a
\* request made within 7 days of the last successful update is rejected and
\* leaves avatar, avatarPublicId and avatarUpdatedAt unchanged.
C29_AvatarUpdatesAWeekApart ==
  /\ [](\A i, j \in 1..Len(avatarUpdates) :
          i < j => avatarUpdates[j] - avatarUpdates[i] >= 7)
  /\ [][\A slot \in AvatarSlots :
          /\ UploadRefused(slot) => account' = account
          /\ (/\ avatarRequests' = avatarRequests + 1
              /\ avatarReqs'[slot] # avatarReqs[slot]
              /\ avatarReqs'[slot].kind = "upload-avatar"
              /\ account.avatarUpdatedAt # NoDate
              /\ avatarDay - account.avatarUpdatedAt[1] < 7) =>
               avatarReqs'[slot].status = 400]_vars

(***************************************************************************)
(* Claims about the filters of GET /manga (SpecSearch).                    *)
(***************************************************************************)
\* C30: every item returned by GET /manga with a search term satisfies the
\* genre and the status filters of the request, also when the items come from
\* the simple fallback query that ran after the full query found nothing.
C30_ListedItemsSatisfyFilters ==
  (resp.endpoint = "list" /\ resp.status = 200) =>
    \A i \in 1..Len(resp.data) :
      LET doc == corpus[resp.data[i]]
          genre == resp.request[2]
          status == resp.request[3]
      IN  /\ genre = "" \/ genre \in doc.genres
          /\ status = "" \/ status = doc.status

====
